---- MODULE Spec2Model ----
(***************************************************************************)
(* A model of f5vpn-login.py: the relay event loop (run_event_loop), the   *)
(* PPPD log watcher (LogWatcher), the tunnel supervisor (execPPPd with     *)
(* shutdown_pppd and as_root) and the orchestrator (main).                 *)
(*                                                                         *)
(* Each part has its own specification over its own group of variables:    *)
(*   SpecLoop   run_event_loop                                             *)
(*   SpecWatch  LogWatcher.process fed with a chunked log stream           *)
(*   SpecExec   execPPPd from privilege drop to the end of teardown        *)
(*   SpecMain   main up to the start of the tunnel                         *)
(* The groups a specification does not move stay in their idle state.      *)
(***************************************************************************)
EXTENDS Integers, Sequences, FiniteSets, TLC

\* ---------------------------------------------------------------- constants

\* KEEPALIVE_TIMEOUT = 60 * 10
KEEPALIVE_TIMEOUT == 600

BUF_SIZE == 8192

\* ------------------------------------------------------------------- bounds

\* Number of bytes each side (PTY, TLS) can deliver during a run.
MaxStream == 3

\* Granularity, in seconds, of the time that passes inside one select call.
TickSeconds == 300

\* Number of password prompts main is followed through.
MaxPrompts == 2

\* Number of MRHSession cookies in one login answer.
MaxCookies == 2

\* Number of route specs in LAN0.
MaxRoutes == 3

\* The last time stamp of the DNS files.
MaxClock == 4

\* Looks at operstate in one call of wait_for_interface.
MaxObs == 4

\* Favorites in the gateway's list.
MaxFavs == 3

\* Lines typed at the selection prompt.
MaxInputs == 3

\* Full buffers of data that can be waiting for one read.
MaxBacklog == 2

\* ------------------------------------------------------------------ helpers

Min(a, b) == IF a < b THEN a ELSE b

Max(a, b) == IF a > b THEN a ELSE b

Take(s, n) == SubSeq(s, 1, n)

Drop(s, n) == SubSeq(s, n + 1, Len(s))

IsPrefix(s, t) == Len(s) <= Len(t) /\ Take(t, Len(s)) = s

\* The bytes the PPPD side will hand to the PTY master, all distinct.
PtyStream == [i \in 1..MaxStream |-> i]

\* The bytes the gateway will send on the TLS socket, all distinct.
SslStream == [i \in 1..MaxStream |-> 100 + i]

VARIABLES
    \* ---- run_event_loop
    pc,                         \* position inside the loop body
    data_to_pppd,
    data_to_ssl,
    data_to_ssl_buf2,
    ssl_write_blocked_on_read,
    ssl_read_blocked_on_write,
    keepalive_socket,           \* TRUE once set_keepalive_host has run
    notified,                   \* logwatcher.notified
    time_since_last_activity,   \* time.time() - last_activity_time
    select_empty,               \* not reads and not writes, after select
    pty_in_pos,                 \* bytes of PtyStream read so far
    ssl_in_pos,                 \* bytes of SslStream read so far
    pty_out,                    \* bytes written to the PTY so far
    ssl_out,                    \* bytes written to the TLS socket so far
    eof_seen,                   \* descriptor whose read returned zero bytes
    exc,                        \* exception that left the loop
    keepalives_sent,            \* datagrams sent on keepalive_socket
    \* ---- LogWatcher
    log_rest,                   \* log text PPPD has not yet written
    collected_log,
    iface_name,
    tty,
    remote_ip,
    local_ip,
    watcher_notified,           \* LogWatcher.notified
    ip_up_calls,                \* argument tuples of the calls of ip_up
    link_actions,               \* what the ip_up calls did to the system
    \* ---- main's privilege drop, execPPPd, shutdown_pppd
    xpc,                        \* position in main / execPPPd
    euid,                       \* os.geteuid() of the supervisor
    ruid,                       \* os.getuid() of the supervisor
    start_uid,                  \* the real uid the process was started with
    platform_kind,              \* what get_platform() built
    params,                     \* which of LAN0, DNS0 params.get finds set
    skip_dns,
    skip_routes,
    attempt,                    \* i of `for i in range(5)`
    connected,                  \* an attempt read the first byte
    host_route,                 \* the /32 route to the gateway is installed
    pppd,                       \* the PPPD child process
    pppd_status,                \* wait status of the child once it has exited
    helper,                     \* the process forked inside ppp_ip_up
    ip_up_ran,
    loop_exit,                  \* how run_event_loop ended
    events,                     \* what execPPPd did, in order
    pppd_seen,                  \* the child as shutdown_pppd found it
    pppd_calls,                 \* system calls of shutdown_pppd on the pid
    raised,                     \* exception leaving execPPPd
    helper_events,              \* what the process forked in ppp_ip_up did
    \* ---- main
    mpc,                        \* position in main
    prefs_file,                 \* content of ~/.f5vpn-login.conf
    args_host,                  \* args[0], or "None" when args is empty
    opt_session,                \* value of --sessionid, or "None"
    session,
    old_session,
    userhost,
    vpn_params,                 \* Session_ID of params, or "None"
    requests,                   \* requests sent to the gateway, in order
    prompts,                    \* password prompts shown
    writes,                     \* calls of write_prefs
    tunnel_session,             \* session execPPPd was started with
    exit_code,
    login_result,               \* the answer to the last login POST
    prefs_line,                 \* the characters of ~/.f5vpn-login.conf
    tunnel_end,                 \* how the relay loop of the tunnel ended
    \* ---- parse_net_bits, routespec_to_revdns, setup_route
    rpc,                        \* "start" before the call, "done" after
    parse_in,                  \* argument of parse_net_bits
    parse_out,                  \* what parse_net_bits returned
    rev_netparts,               \* arguments of routespec_to_revdns
    rev_bits,
    rev_out,                    \* what routespec_to_revdns returned
    lan0_list,                       \* params['LAN0'].split(' ')
    lan_routes,                 \* routes added by setup_route, in order
    revdns_domains,
    route_error,                \* what ended setup_route early
    \* ---- ManualFrobbingDNSMixin
    dpc,                        \* "start", "running" (tunnel up), "done"
    resolv_conf,                \* /etc/resolv.conf
    resolv_conf_bak,            \* /etc/resolv.conf.f5_bak
    resolv_conf_timestamp,
    dns_clock,                  \* the time files are stamped with
    dns_before,                  \* the two files and the timestamp before teardown
    \* ---- LinuxPlatform.wait_for_interface
    wpc,                        \* "poll" inside the while loop, "done" after return
    iface_up,
    already_unknown,
    observed,                    \* the operstate values read so far, in order
    \* ---- get_vpn_menu_number: the selection
    fpc,                        \* "start", "prompt" (the if/while), "done", "raised"
    nfavs,                      \* len(favs)
    selected_fav,
    inputs,                      \* the numbers read from standard input, in order
    \* ---- run_event_loop: the sizes of its buffers
    spc,                        \* the step of the loop body that comes next
    len_to_pppd,                \* len(data_to_pppd)
    len_to_ssl,                 \* len(data_to_ssl)
    len_to_ssl_buf2             \* len(data_to_ssl_buf2)

loopVars == <<pc, data_to_pppd, data_to_ssl, data_to_ssl_buf2,
              ssl_write_blocked_on_read, ssl_read_blocked_on_write,
              keepalive_socket, notified, time_since_last_activity,
              select_empty, pty_in_pos, ssl_in_pos, pty_out, ssl_out,
              eof_seen, exc, keepalives_sent>>

watchVars == <<log_rest, collected_log, iface_name, tty, remote_ip,
               local_ip, watcher_notified, ip_up_calls, link_actions>>

execVars == <<xpc, euid, ruid, start_uid, platform_kind, params, skip_dns,
              skip_routes, attempt, connected, host_route, pppd, pppd_status,
              helper, ip_up_ran, loop_exit, events, pppd_seen, pppd_calls,
              raised, helper_events>>

mainVars == <<mpc, prefs_file, args_host, opt_session, session, old_session,
              userhost, vpn_params, requests, prompts, writes,
              tunnel_session, exit_code, login_result, prefs_line,
              tunnel_end>>

routeVars == <<rpc, parse_in, parse_out, rev_netparts, rev_bits, rev_out,
               lan0_list, lan_routes, revdns_domains, route_error>>

dnsVars == <<dpc, resolv_conf, resolv_conf_bak, resolv_conf_timestamp,
             dns_clock, dns_before>>

ifaceVars == <<wpc, iface_up, already_unknown, observed>>

menuVars == <<fpc, nfavs, selected_fav, inputs>>

sizeVars == <<spc, len_to_pppd, len_to_ssl, len_to_ssl_buf2>>

\* Everything run_event_loop leaves alone.
otherThanLoop == <<watchVars, execVars, mainVars, routeVars,
    dnsVars,
    ifaceVars,
    menuVars,
    sizeVars>>

\* Everything LogWatcher leaves alone.
otherThanWatch == <<loopVars, execVars, mainVars, routeVars,
    dnsVars,
    ifaceVars,
    menuVars,
    sizeVars>>

\* Everything execPPPd leaves alone.
otherThanExec == <<loopVars, watchVars, mainVars, routeVars,
    dnsVars,
    ifaceVars,
    menuVars,
    sizeVars>>

\* Everything main leaves alone before it starts the tunnel.
otherThanMain == <<loopVars, watchVars, execVars, routeVars,
    dnsVars,
    ifaceVars,
    menuVars,
    sizeVars>>

\* Everything the route functions leave alone.
otherThanRoute == <<loopVars, watchVars, execVars, mainVars,
    dnsVars,
    ifaceVars,
    menuVars,
    sizeVars>>

\* Everything the DNS mixin leaves alone.
otherThanDns == <<loopVars, watchVars, execVars, mainVars, routeVars,
    ifaceVars,
    menuVars,
    sizeVars>>

\* Everything wait_for_interface leaves alone.
otherThanIface == <<loopVars,
    watchVars,
    execVars,
    mainVars,
    routeVars,
    dnsVars,
    menuVars,
    sizeVars>>

\* Everything the favorite selection leaves alone.
otherThanMenu == <<loopVars,
    watchVars,
    execVars,
    mainVars,
    routeVars,
    dnsVars,
    ifaceVars,
    sizeVars>>

\* Everything the buffer sizes leave alone.
otherThanSize == <<loopVars,
    watchVars,
    execVars,
    mainVars,
    routeVars,
    dnsVars,
    ifaceVars,
    menuVars>>

vars == <<loopVars,
    watchVars,
    execVars,
    mainVars,
    routeVars,
    dnsVars,
    ifaceVars,
    menuVars,
    sizeVars>>

\* =========================================================== run_event_loop

\* State at the first `while 1:` test.
LoopInit ==
    /\ pc = "select"
    /\ data_to_pppd = <<>>
    /\ data_to_ssl = <<>>
    /\ data_to_ssl_buf2 = <<>>
    /\ ssl_write_blocked_on_read = FALSE
    /\ ssl_read_blocked_on_write = FALSE
    /\ keepalive_socket = FALSE
    /\ notified = FALSE
    /\ time_since_last_activity = 0
    /\ select_empty = FALSE
    /\ pty_in_pos = 0
    /\ ssl_in_pos = 0
    /\ pty_out = <<>>
    /\ ssl_out = <<>>
    /\ eof_seen = "none"
    /\ exc = "none"
    /\ keepalives_sent = 0

\* The read set handed to select.
SelectReads ==
    {"logpipe_r"}
    \cup (IF data_to_pppd = <<>> /\ ~ssl_read_blocked_on_write
          THEN {"ssl_socket"} ELSE {})
    \cup (IF data_to_ssl # <<>> /\ ssl_write_blocked_on_read
          THEN {"ssl_socket"} ELSE {})
    \cup (IF data_to_ssl = <<>> THEN {"pppd_fd"} ELSE {})

\* The write set handed to select.
SelectWrites ==
    (IF data_to_pppd # <<>> THEN {"pppd_fd"}
     ELSE IF ssl_read_blocked_on_write THEN {"ssl_socket"} ELSE {})
    \cup (IF data_to_ssl # <<>> /\ ~ssl_write_blocked_on_read
          THEN {"ssl_socket"} ELSE {})

\* timeout = max(last_activity_time + KEEPALIVE_TIMEOUT - time.time(), 0)
SelectTimeout == Max(KEEPALIVE_TIMEOUT - time_since_last_activity, 0)

\* Time that can pass inside one select call.
Delays == {0, TickSeconds, SelectTimeout, SelectTimeout + 1}

\* Idle times above the timeout all behave alike: count them as timeout + 1.
Elapse(d) == Min(time_since_last_activity + d, KEEPALIVE_TIMEOUT + 1)

\* select.select(reads, writes, [], timeout) returns: with some descriptor
\* ready before the timeout, or with nothing ready once the timeout is over
\* (only when keepalive_socket is set; otherwise the timeout is None).
Select ==
    /\ pc = "select"
    /\ \E rr \in SUBSET SelectReads, ww \in SUBSET SelectWrites, d \in Delays :
          LET empty == rr = {} /\ ww = {} IN
          /\ empty => keepalive_socket /\ d >= SelectTimeout
          /\ (~empty /\ keepalive_socket) => d <= SelectTimeout
          /\ select_empty' = empty
          /\ time_since_last_activity' = Elapse(d)
    /\ pc' = "keepalive"
    /\ UNCHANGED <<otherThanLoop, data_to_pppd, data_to_ssl, data_to_ssl_buf2,
                   ssl_write_blocked_on_read, ssl_read_blocked_on_write,
                   keepalive_socket, notified, pty_in_pos, ssl_in_pos,
                   pty_out, ssl_out, eof_seen, exc, keepalives_sent>>

\* Whether select.select(reads, writes, [], timeout) returns when just the
\* descriptors of `readable` have data and just those of `writable` take
\* data: one of them is in the set handed over, or the timeout is not None.
SelectReturns(readable, writable) ==
    \/ SelectReads \cap readable # {}
    \/ SelectWrites \cap writable # {}
    \/ keepalive_socket

\* select raises EAGAIN or EINTR: `continue`.
SelectInterrupted ==
    /\ pc = "select"
    /\ \E d \in {0, TickSeconds} :
          /\ keepalive_socket => d <= SelectTimeout
          /\ time_since_last_activity' = Elapse(d)
    /\ UNCHANGED <<otherThanLoop, pc, data_to_pppd, data_to_ssl, data_to_ssl_buf2,
                   ssl_write_blocked_on_read, ssl_read_blocked_on_write,
                   keepalive_socket, notified, select_empty, pty_in_pos,
                   ssl_in_pos, pty_out, ssl_out, eof_seen, exc,
                   keepalives_sent>>

\* if keepalive_socket and not reads and not writes:
\*     if time.time() - last_activity_time > KEEPALIVE_TIMEOUT:
KeepaliveDue ==
    /\ keepalive_socket
    /\ select_empty
    /\ time_since_last_activity > KEEPALIVE_TIMEOUT

\* keepalive_socket.send('keepalive'): the payload is a str literal.  The
\* script runs only under Python 3 (ssl.SSLContext, ssl.TLSVersion), where
\* socket.send accepts bytes-like objects only and raises TypeError for str.
KeepalivePayloadIsBytes == FALSE

KeepaliveStep ==
    /\ pc = "keepalive"
    /\ IF KeepaliveDue
       THEN IF KeepalivePayloadIsBytes
            THEN /\ keepalives_sent' = keepalives_sent + 1
                 /\ pc' = "readlog"
                 /\ exc' = exc
            ELSE /\ keepalives_sent' = keepalives_sent
                 /\ pc' = "raised"
                 /\ exc' = "TypeError"
       ELSE /\ keepalives_sent' = keepalives_sent
            /\ pc' = "readlog"
            /\ exc' = exc
    /\ UNCHANGED <<otherThanLoop, data_to_pppd, data_to_ssl, data_to_ssl_buf2,
                   ssl_write_blocked_on_read, ssl_read_blocked_on_write,
                   keepalive_socket, notified, time_since_last_activity,
                   select_empty, pty_in_pos, ssl_in_pos, pty_out, ssl_out,
                   eof_seen>>

\* A read that returned nbytes without raising: zero bytes is EOF (`break`).
AfterRead_noBreak(nbytes, nextpc) == nextpc

AfterRead(nbytes, nextpc) == IF nbytes = 0 THEN "done" ELSE nextpc

\* Read data from log pipe, feed it to the log watcher.  The watcher calls
\* ppp_ip_up (which ends in set_keepalive_host) at the first chunk with which
\* all four patterns have matched; SpecWatch models the matching itself.
ReadLog ==
    /\ pc = "readlog"
    /\ \/ \* EAGAIN / EINTR
          /\ pc' = "readpppd"
          /\ UNCHANGED <<otherThanLoop, eof_seen, exc, notified, keepalive_socket>>
       \/ \* EOF
          /\ pc' = AfterRead(0, "readpppd")
          /\ eof_seen' = "logpipe_r"
          /\ UNCHANGED <<otherThanLoop, exc, notified, keepalive_socket>>
       \/ \* a chunk that leaves the watcher unnotified, or comes after ip_up
          /\ pc' = AfterRead(1, "readpppd")
          /\ UNCHANGED <<otherThanLoop, eof_seen, exc, notified, keepalive_socket>>
       \/ \* the chunk that completes the four matches: ip_up runs
          /\ ~notified
          /\ notified' = TRUE
          /\ \/ /\ keepalive_socket' = TRUE
                /\ pc' = AfterRead(1, "readpppd")
                /\ exc' = exc
             \/ \* ppp_ip_up raises before set_keepalive_host
                /\ keepalive_socket' = keepalive_socket
                /\ pc' = "raised"
                /\ exc' = "Exception"
          /\ UNCHANGED eof_seen
       \/ \* any other OSError
          /\ pc' = "raised"
          /\ exc' = "OSError"
          /\ UNCHANGED <<otherThanLoop, eof_seen, notified, keepalive_socket>>
    /\ UNCHANGED <<otherThanLoop, data_to_pppd, data_to_ssl, data_to_ssl_buf2,
                   ssl_write_blocked_on_read, ssl_read_blocked_on_write,
                   time_since_last_activity, select_empty, pty_in_pos,
                   ssl_in_pos, pty_out, ssl_out, keepalives_sent>>

\* if not data_to_ssl: data_to_ssl = os.read(pppd_fd, BUF_SIZE)
PtyReadAllowed(dts) == dts = <<>>

ReadPppd ==
    /\ pc = "readpppd"
    /\ IF ~PtyReadAllowed(data_to_ssl)
       THEN /\ pc' = "readssl"
            /\ UNCHANGED <<otherThanLoop, data_to_ssl, pty_in_pos, eof_seen, exc>>
       ELSE \/ \E n \in 1..Min(BUF_SIZE, MaxStream - pty_in_pos) :
                 /\ data_to_ssl' = SubSeq(PtyStream, pty_in_pos + 1,
                                          pty_in_pos + n)
                 /\ pty_in_pos' = pty_in_pos + n
                 /\ pc' = AfterRead(n, "readssl")
                 /\ UNCHANGED <<otherThanLoop, eof_seen, exc>>
            \/ \* EOF
               /\ data_to_ssl' = <<>>
               /\ pc' = AfterRead(0, "readssl")
               /\ eof_seen' = "pppd_fd"
               /\ UNCHANGED <<otherThanLoop, pty_in_pos, exc>>
            \/ \* EAGAIN / EINTR
               /\ pc' = "readssl"
               /\ UNCHANGED <<otherThanLoop, data_to_ssl, pty_in_pos, eof_seen, exc>>
            \/ \* any other OSError
               /\ pc' = "raised"
               /\ exc' = "OSError"
               /\ UNCHANGED <<otherThanLoop, data_to_ssl, pty_in_pos, eof_seen>>
    /\ UNCHANGED <<otherThanLoop, data_to_pppd, data_to_ssl_buf2,
                   ssl_write_blocked_on_read, ssl_read_blocked_on_write,
                   keepalive_socket, notified, time_since_last_activity,
                   select_empty, ssl_in_pos, pty_out, ssl_out,
                   keepalives_sent>>

\* if not data_to_pppd: data_to_pppd = ssl_socket.read(BUF_SIZE)
ReadSsl ==
    /\ pc = "readssl"
    /\ IF data_to_pppd # <<>>
       THEN /\ pc' = "writepppd"
            /\ UNCHANGED <<otherThanLoop, data_to_pppd, ssl_in_pos, eof_seen, exc,
                           ssl_read_blocked_on_write,
                           time_since_last_activity>>
       ELSE \/ \E n \in 1..Min(BUF_SIZE, MaxStream - ssl_in_pos) :
                 /\ data_to_pppd' = SubSeq(SslStream, ssl_in_pos + 1,
                                           ssl_in_pos + n)
                 /\ ssl_in_pos' = ssl_in_pos + n
                 /\ ssl_read_blocked_on_write' = FALSE
                 /\ time_since_last_activity' = 0
                 /\ pc' = AfterRead(n, "writepppd")
                 /\ UNCHANGED <<otherThanLoop, eof_seen, exc>>
            \/ \* EOF
               /\ data_to_pppd' = <<>>
               /\ ssl_read_blocked_on_write' = FALSE
               /\ pc' = AfterRead(0, "writepppd")
               /\ eof_seen' = "ssl_socket"
               /\ UNCHANGED <<otherThanLoop, ssl_in_pos, exc, time_since_last_activity>>
            \/ \* SSL_ERROR_WANT_READ
               /\ ssl_read_blocked_on_write' = FALSE
               /\ pc' = "writepppd"
               /\ UNCHANGED <<otherThanLoop, data_to_pppd, ssl_in_pos, eof_seen, exc,
                              time_since_last_activity>>
            \/ \* SSL_ERROR_WANT_WRITE
               /\ ssl_read_blocked_on_write' = TRUE
               /\ pc' = "writepppd"
               /\ UNCHANGED <<otherThanLoop, data_to_pppd, ssl_in_pos, eof_seen, exc,
                              time_since_last_activity>>
            \/ \* any other SSLError
               /\ ssl_read_blocked_on_write' = FALSE
               /\ pc' = "raised"
               /\ exc' = "SSLError"
               /\ UNCHANGED <<otherThanLoop, data_to_pppd, ssl_in_pos, eof_seen,
                              time_since_last_activity>>
    /\ UNCHANGED <<otherThanLoop, data_to_ssl, data_to_ssl_buf2, ssl_write_blocked_on_read,
                   keepalive_socket, notified, select_empty, pty_in_pos,
                   pty_out, ssl_out, keepalives_sent>>

\* data_to_pppd = data_to_pppd[num_written:]
AfterPtyWrite_dropRest(buf, num_written) == <<>>

AfterPtyWrite(buf, num_written) == Drop(buf, num_written)

\* if data_to_pppd: num_written = os.write(pppd_fd, data_to_pppd)
WritePppd ==
    /\ pc = "writepppd"
    /\ IF data_to_pppd = <<>>
       THEN /\ pc' = "writessl"
            /\ UNCHANGED <<otherThanLoop, data_to_pppd, pty_out, exc>>
       ELSE \/ \E num_written \in 1..Len(data_to_pppd) :
                 /\ pty_out' = pty_out \o Take(data_to_pppd, num_written)
                 /\ data_to_pppd' = AfterPtyWrite(data_to_pppd, num_written)
                 /\ pc' = "writessl"
                 /\ exc' = exc
            \/ \* EAGAIN / EINTR
               /\ pc' = "writessl"
               /\ UNCHANGED <<otherThanLoop, data_to_pppd, pty_out, exc>>
            \/ \* any other OSError
               /\ pc' = "raised"
               /\ exc' = "OSError"
               /\ UNCHANGED <<otherThanLoop, data_to_pppd, pty_out>>
    /\ UNCHANGED <<otherThanLoop, data_to_ssl, data_to_ssl_buf2, ssl_write_blocked_on_read,
                   ssl_read_blocked_on_write, keepalive_socket, notified,
                   time_since_last_activity, select_empty, pty_in_pos,
                   ssl_in_pos, ssl_out, eof_seen, keepalives_sent>>

\* if not data_to_ssl_buf2 and data_to_ssl:
CanPromote_anytime(buf2, dts) == dts # <<>>

CanPromote(buf2, dts) == buf2 = <<>> /\ dts # <<>>

\* Promotion of data_to_ssl into data_to_ssl_buf2, then
\* if data_to_ssl_buf2: num_written = ssl_socket.write(data_to_ssl_buf2)
\* which writes the whole buffer or raises.
WriteSsl ==
    /\ pc = "writessl"
    /\ LET promote == CanPromote(data_to_ssl_buf2, data_to_ssl)
           buf2 == IF promote THEN data_to_ssl ELSE data_to_ssl_buf2
           dts == IF promote THEN <<>> ELSE data_to_ssl
       IN
       /\ data_to_ssl' = dts
       /\ IF buf2 = <<>>
          THEN /\ pc' = "select"
               /\ data_to_ssl_buf2' = buf2
               /\ UNCHANGED <<otherThanLoop, ssl_write_blocked_on_read, ssl_out, exc,
                              time_since_last_activity>>
          ELSE \/ \* the write succeeds
                  /\ ssl_out' = ssl_out \o buf2
                  /\ data_to_ssl_buf2' = <<>>
                  /\ ssl_write_blocked_on_read' = FALSE
                  /\ time_since_last_activity' = 0
                  /\ pc' = "select"
                  /\ exc' = exc
               \/ \* SSL_ERROR_WANT_READ
                  /\ data_to_ssl_buf2' = buf2
                  /\ ssl_write_blocked_on_read' = TRUE
                  /\ pc' = "select"
                  /\ UNCHANGED <<otherThanLoop, ssl_out, exc, time_since_last_activity>>
               \/ \* SSL_ERROR_WANT_WRITE
                  /\ data_to_ssl_buf2' = buf2
                  /\ ssl_write_blocked_on_read' = FALSE
                  /\ pc' = "select"
                  /\ UNCHANGED <<otherThanLoop, ssl_out, exc, time_since_last_activity>>
               \/ \* any other SSLError
                  /\ data_to_ssl_buf2' = buf2
                  /\ ssl_write_blocked_on_read' = FALSE
                  /\ pc' = "raised"
                  /\ exc' = "SSLError"
                  /\ UNCHANGED <<otherThanLoop, ssl_out, time_since_last_activity>>
    /\ UNCHANGED <<otherThanLoop, data_to_pppd, ssl_read_blocked_on_write, keepalive_socket,
                   notified, select_empty, pty_in_pos, ssl_in_pos, pty_out,
                   eof_seen, keepalives_sent>>

\* Ctrl-C while the loop runs.
KeyboardInterrupt ==
    /\ pc \notin {"done", "raised"}
    /\ pc' = "raised"
    /\ exc' = "KeyboardInterrupt"
    /\ UNCHANGED <<otherThanLoop, data_to_pppd, data_to_ssl, data_to_ssl_buf2,
                   ssl_write_blocked_on_read, ssl_read_blocked_on_write,
                   keepalive_socket, notified, time_since_last_activity,
                   select_empty, pty_in_pos, ssl_in_pos, pty_out, ssl_out,
                   eof_seen, keepalives_sent>>

\* The loop variables while another part of the program is examined.
LoopIdle == LoopInit

NextLoop ==
    \/ Select
    \/ SelectInterrupted
    \/ KeepaliveStep
    \/ ReadLog
    \/ ReadPppd
    \/ ReadSsl
    \/ WritePppd
    \/ WriteSsl
    \/ KeyboardInterrupt

\* =============================================================== LogWatcher

\* Strings are sequences of one-character strings.
\* 'Using interface '
UsingInterfaceLit ==
    <<
    "U", "s", "i", "n", "g", " ", "i", "n", "t", "e", "r", "f",
    "a", "c", "e", " " >>

\* 'Connect: '
ConnectLit ==
    << "C", "o", "n", "n", "e", "c", "t", ":", " " >>

\* ' <--> '
ArrowLit ==
    << " ", "<", "-", "-", ">", " " >>

\* 'remote IP address '
RemoteLit ==
    <<
    "r", "e", "m", "o", "t", "e", " ", "I", "P", " ", "a", "d",
    "d", "r", "e", "s", "s", " " >>

\* 'local  IP address '
LocalLit ==
    <<
    "l", "o", "c", "a", "l", " ", " ", "I", "P", " ", "a", "d",
    "d", "r", "e", "s", "s", " " >>

\* 'Using interface ppp0\nConnect: /dev/pts/3 <--> /dev/pts/5\nlocal  IP address 10.0.0.2\nremote IP address 10.0.0.1\n'
CanonicalLog ==
    <<
    "U", "s", "i", "n", "g", " ", "i", "n", "t", "e", "r", "f",
    "a", "c", "e", " ", "p", "p", "p", "0", "\n", "C", "o", "n",
    "n", "e", "c", "t", ":", " ", "/", "d", "e", "v", "/", "p",
    "t", "s", "/", "3", " ", "<", "-", "-", ">", " ", "/", "d",
    "e", "v", "/", "p", "t", "s", "/", "5", "\n", "l", "o", "c",
    "a", "l", " ", " ", "I", "P", " ", "a", "d", "d", "r", "e",
    "s", "s", " ", "1", "0", ".", "0", ".", "0", ".", "2", "\n",
    "r", "e", "m", "o", "t", "e", " ", "I", "P", " ", "a", "d",
    "d", "r", "e", "s", "s", " ", "1", "0", ".", "0", ".", "0",
    ".", "1", "\n" >>

\* 'Connect: a <--> b\nlocal  IP address 1\nUsing interface p\n'
NoRemoteLog ==
    <<
    "C", "o", "n", "n", "e", "c", "t", ":", " ", "a", " ", "<",
    "-", "-", ">", " ", "b", "\n", "l", "o", "c", "a", "l", " ",
    " ", "I", "P", " ", "a", "d", "d", "r", "e", "s", "s", " ",
    "1", "\n", "U", "s", "i", "n", "g", " ", "i", "n", "t", "e",
    "r", "f", "a", "c", "e", " ", "p", "\n" >>

\* 'remote IP address 2\nUsing interface p\nConnect: x\nUsing interface q\nlocal  IP address 1\nConnect: a <--> b <--> c\n'
ShuffledLog ==
    <<
    "r", "e", "m", "o", "t", "e", " ", "I", "P", " ", "a", "d",
    "d", "r", "e", "s", "s", " ", "2", "\n", "U", "s", "i", "n",
    "g", " ", "i", "n", "t", "e", "r", "f", "a", "c", "e", " ",
    "p", "\n", "C", "o", "n", "n", "e", "c", "t", ":", " ", "x",
    "\n", "U", "s", "i", "n", "g", " ", "i", "n", "t", "e", "r",
    "f", "a", "c", "e", " ", "q", "\n", "l", "o", "c", "a", "l",
    " ", " ", "I", "P", " ", "a", "d", "d", "r", "e", "s", "s",
    " ", "1", "\n", "C", "o", "n", "n", "e", "c", "t", ":", " ",
    "a", " ", "<", "-", "-", ">", " ", "b", " ", "<", "-", "-",
    ">", " ", "c", "\n" >>

\* 'ppp0'
Str_ppp0 ==
    << "p", "p", "p", "0" >>

\* '/dev/pts/5'
Str_tty ==
    << "/", "d", "e", "v", "/", "p", "t", "s", "/", "5" >>

\* '10.0.0.2'
Str_local ==
    << "1", "0", ".", "0", ".", "0", ".", "2" >>

\* '10.0.0.1'
Str_remote ==
    << "1", "0", ".", "0", ".", "0", ".", "1" >>


\* The value of an attribute that is still None.
None == << "None" >>

SetMin(S) == CHOOSE x \in S : \A y \in S : x <= y

SetMax(S) == CHOOSE x \in S : \A y \in S : x >= y

\* lit occurs in s at index i.
LitAt(s, lit, i) ==
    /\ i + Len(lit) - 1 <= Len(s)
    /\ s[i] = lit[1]
    /\ SubSeq(s, i, i + Len(lit) - 1) = lit

\* Last index of the run of non-newline characters that starts at i: how far
\* a greedy `.*` reaches from i; `$` (re.MULTILINE) matches right after it.
LineEnd(s, i) ==
    LET nl == {j \in i..Len(s) : s[j] = "\n"} IN
    IF nl = {} THEN Len(s) ELSE SetMin(nl) - 1

\* re.search(lit + "(.*)$", s, re.MULTILINE): group 1 of the leftmost match.
SearchToEol(lit, s) ==
    LET starts == {i \in 1..Len(s) : LitAt(s, lit, i)} IN
    IF starts = {} THEN None
    ELSE LET from == SetMin(starts) + Len(lit) IN
         SubSeq(s, from, LineEnd(s, from))

\* re.search("Connect: .* <--> (.*)$", s, re.MULTILINE): the leftmost
\* "Connect: " that has a " <--> " later on its line, and, `.*` being greedy,
\* the last " <--> " of that line.
SearchConnect(s) ==
    LET arrows(i) == {j \in (i + Len(ConnectLit))..LineEnd(s, i + Len(ConnectLit)) :
                         LitAt(s, ArrowLit, j)}
        starts == {i \in 1..Len(s) : LitAt(s, ConnectLit, i) /\ arrows(i) # {}}
    IN
    IF starts = {} THEN None
    ELSE LET from == SetMax(arrows(SetMin(starts))) + Len(ArrowLit) IN
         SubSeq(s, from, LineEnd(s, from))

\* LogWatcher._get_match(exp) on the collected log.
get_match(exp, log) ==
    CASE exp = "Using interface (.*)$" -> SearchToEol(UsingInterfaceLit, log)
      [] exp = "Connect: .* <--> (.*)$" -> SearchConnect(log)
      [] exp = "remote IP address (.*)$" -> SearchToEol(RemoteLit, log)
      [] exp = "local  IP address (.*)$" -> SearchToEol(LocalLit, log)

\* if not (self.notified or self.iface_name is None or self.tty is None or
\*         self.remote_ip is None or self.local_ip is None):
ShouldNotify_renotify(n, i, t, r, l) ==
    ~(i = None \/ t = None \/ r = None \/ l = None)

ShouldNotify(n, i, t, r, l) ==
    ~(n \/ i = None \/ t = None \/ r = None \/ l = None)

\* What ppp_ip_up does to the system, in order, when nothing in it fails:
\* the LAN0 routes, set_keepalive_host, platform.setup_dns.
IpUpActions(lan0, dns0, no_routes, no_dns) ==
    (IF lan0 /\ ~no_routes THEN << "setup_route" >> ELSE << >>)
    \o << "set_keepalive_host" >>
    \o (IF dns0 /\ ~no_dns THEN << "setup_dns" >> ELSE << >>)

\* The log texts PPPD may write.
LogTexts == {CanonicalLog, NoRemoteLog, ShuffledLog}

\* A new LogWatcher: the class attributes.
WatchInit ==
    /\ log_rest \in LogTexts
    /\ collected_log = << >>
    /\ iface_name = None
    /\ tty = None
    /\ remote_ip = None
    /\ local_ip = None
    /\ watcher_notified = FALSE
    /\ ip_up_calls = << >>
    /\ link_actions = << >>

WatchIdle ==
    /\ log_rest = << >>
    /\ collected_log = << >>
    /\ iface_name = None
    /\ tty = None
    /\ remote_ip = None
    /\ local_ip = None
    /\ watcher_notified = FALSE
    /\ ip_up_calls = << >>
    /\ link_actions = << >>

\* One os.read of the log pipe that returns n bytes, and
\* LogWatcher.process(logmsg) on them.  ip_up is execPPPd's ppp_ip_up with
\* LAN0 and DNS0 set and neither --skip-routes nor --skip-dns given.
process ==
    /\ log_rest # << >>
    /\ \E n \in 1..Min(BUF_SIZE, Len(log_rest)) :
          /\ log_rest' = Drop(log_rest, n)
          /\ collected_log' = collected_log \o Take(log_rest, n)
    /\ iface_name' = IF iface_name = None
                     THEN get_match("Using interface (.*)$", collected_log')
                     ELSE iface_name
    /\ tty' = IF tty = None
              THEN get_match("Connect: .* <--> (.*)$", collected_log')
              ELSE tty
    /\ remote_ip' = IF remote_ip = None
                    THEN get_match("remote IP address (.*)$", collected_log')
                    ELSE remote_ip
    /\ local_ip' = IF local_ip = None
                   THEN get_match("local  IP address (.*)$", collected_log')
                   ELSE local_ip
    /\ IF ShouldNotify(watcher_notified, iface_name', tty', remote_ip',
                       local_ip')
       THEN /\ watcher_notified' = TRUE
            /\ ip_up_calls' = Append(ip_up_calls,
                                     <<iface_name', tty', local_ip', remote_ip'>>)
            /\ link_actions' = link_actions \o
                  IpUpActions(TRUE, TRUE, FALSE, FALSE)
       ELSE UNCHANGED <<watcher_notified, ip_up_calls, link_actions>>
    /\ UNCHANGED otherThanWatch

\* The log pipe is read, chunk by chunk, until PPPD has no more to say.
NextWatch ==
    \/ process

\* ======================================= main's privilege drop and execPPPd

\* The uids a setuid-root script can be started with: by root, or by a user.
StartUids == {0, 1000}

Platforms == {"Darwin", "LinuxSystemd", "LinuxResolvconf", "LinuxManual"}

\* Wait statuses PPPD can end with: exit code 0, exit code 1, killed by
\* SIGTERM.
PppdStatuses == {0, 256, 15}

\* main has checked os.geteuid() == 0 and is about to drop privileges.
ExecInit ==
    /\ xpc = "start"
    /\ euid = 0
    /\ ruid \in StartUids
    /\ start_uid = ruid
    /\ platform_kind \in Platforms
    /\ params \in [LAN0 : BOOLEAN, DNS0 : BOOLEAN]
    /\ skip_dns \in BOOLEAN
    /\ skip_routes \in BOOLEAN
    /\ attempt = 0
    /\ connected = FALSE
    /\ host_route = FALSE
    /\ pppd = "none"
    /\ pppd_status = 0
    /\ helper = "none"
    /\ ip_up_ran = FALSE
    /\ loop_exit = "none"
    /\ events = << >>
    /\ pppd_seen = "none"
    /\ pppd_calls = << >>
    /\ raised = "none"
    /\ helper_events = << >>

ExecIdle ==
    /\ xpc = "start"
    /\ euid = 0
    /\ ruid = 0
    /\ start_uid = 0
    /\ platform_kind = "Darwin"
    /\ params = [LAN0 |-> FALSE, DNS0 |-> FALSE]
    /\ skip_dns = FALSE
    /\ skip_routes = FALSE
    /\ attempt = 0
    /\ connected = FALSE
    /\ host_route = FALSE
    /\ pppd = "none"
    /\ pppd_status = 0
    /\ helper = "none"
    /\ ip_up_ran = FALSE
    /\ loop_exit = "none"
    /\ events = << >>
    /\ pppd_seen = "none"
    /\ pppd_calls = << >>
    /\ raised = "none"
    /\ helper_events = << >>

\* as_root: try: os.seteuid(0); return fn(...)
\*          finally: os.seteuid(os.getuid())
\* The effective uid as_root leaves behind, whether fn returned or raised.
as_root(real_uid) == real_uid

\* os.seteuid(os.getuid()) in main.
DropPrivileges ==
    /\ xpc = "start"
    /\ euid' = ruid
    /\ xpc' = "connect"
    /\ UNCHANGED <<otherThanExec, helper_events, ruid, start_uid, platform_kind, params,
                   skip_dns, skip_routes, attempt, connected, host_route, pppd,
                   pppd_status, helper, ip_up_ran, loop_exit, events,
                   pppd_seen, pppd_calls, raised>>

\* One round of `for i in range(5)`: connect, wrap, write the request, read
\* one byte.
ConnectAttempt ==
    /\ xpc = "connect"
    /\ attempt < 5
    /\ \/ \* initial_data is read: break
          /\ connected' = TRUE
          /\ xpc' = "hostroute"
          /\ UNCHANGED <<attempt, raised>>
       \/ \* ssl.SSLError with e.args[0] == 8: next round
          /\ attempt' = attempt + 1
          /\ UNCHANGED <<connected, xpc, raised>>
       \/ \* any other ssl.SSLError: raise
          /\ raised' = "SSLError"
          /\ xpc' = "end"
          /\ UNCHANGED <<attempt, connected>>
    /\ UNCHANGED <<otherThanExec, helper_events, euid, ruid, start_uid, platform_kind, params,
                   skip_dns, skip_routes, host_route, pppd, pppd_status,
                   helper, ip_up_ran, loop_exit, events, pppd_seen, pppd_calls>>

\* range(5) is exhausted: the for statement ends without break and without
\* an exception, and execPPPd goes on.
ConnectGiveUp ==
    /\ xpc = "connect"
    /\ attempt = 5
    /\ xpc' = "hostroute"
    /\ UNCHANGED <<otherThanExec, helper_events, euid, ruid, start_uid, platform_kind, params,
                   skip_dns, skip_routes, attempt, connected, host_route, pppd,
                   pppd_status, helper, ip_up_ran, loop_exit, events,
                   pppd_seen, pppd_calls, raised>>

\* openpty, pipe, ssl_socket.getpeername(), netstat, then
\* platform.setup_route(..., 32, 'delete') (errors ignored) and
\* platform.setup_route(..., 32, 'add').  All of it comes before the try.
AddHostRoute ==
    /\ xpc = "hostroute"
    /\ \/ \* the route is added
          /\ host_route' = TRUE
          /\ events' = Append(events, "add_host_route")
          /\ xpc' = "spawn"
          /\ UNCHANGED raised
       \/ \* the route command fails: run_as_root raises
          /\ raised' = "Exception"
          /\ xpc' = "end"
          /\ UNCHANGED <<host_route, events>>
       \/ \* no attempt succeeded: ssl_socket is unbound or not connected
          /\ ~connected
          /\ raised' = "OSError"
          /\ xpc' = "end"
          /\ UNCHANGED <<host_route, events>>
    /\ UNCHANGED <<otherThanExec, helper_events, euid, ruid, start_uid, platform_kind, params,
                   skip_dns, skip_routes, attempt, connected, pppd,
                   pppd_status, helper, ip_up_ran, loop_exit, pppd_seen,
                   pppd_calls>>

\* pid = os.fork(); the child execs PPPD.
SpawnPppd ==
    /\ xpc = "spawn"
    /\ pppd' = "running"
    /\ events' = Append(events, "fork_pppd")
    /\ xpc' = "loop"
    /\ UNCHANGED <<otherThanExec, helper_events, euid, ruid, start_uid, platform_kind, params,
                   skip_dns, skip_routes, attempt, connected, host_route,
                   pppd_status, helper, ip_up_ran, loop_exit, pppd_seen,
                   pppd_calls, raised>>

\* PPPD ends by itself (the peer closed the link, an error, a signal) and
\* waits to be reaped.
PppdExits ==
    /\ pppd = "running"
    /\ xpc \in {"loop", "ipup_wait", "teardown_dns", "shutdown_pppd"}
    /\ pppd' = "zombie"
    /\ pppd_status' \in PppdStatuses
    /\ UNCHANGED <<otherThanExec, helper_events, xpc, euid, ruid, start_uid, platform_kind,
                   params, skip_dns, skip_routes, attempt, connected,
                   host_route, helper, ip_up_ran, loop_exit, events, pppd_seen,
                   pppd_calls, raised>>

\* if params.get('LAN0'): if not skip_routes:
RoutesWanted == params.LAN0 /\ ~skip_routes

\* if params.get('DNS0') and not skip_dns:
DnsWanted == params.DNS0 /\ ~skip_dns

\* set_keepalive_host(local_ip), then platform.setup_dns(...) if wanted: the
\* end of ppp_ip_up.  setup_dns raises when its command fails.
IpUpTail(next) ==
    \/ /\ events' = events \o << "set_keepalive_host" >>
                    \o (IF DnsWanted THEN << "setup_dns" >> ELSE << >>)
       /\ xpc' = next
       /\ UNCHANGED loop_exit
    \/ /\ DnsWanted
       /\ events' = Append(events, "set_keepalive_host")
       /\ loop_exit' = "Exception"
       /\ xpc' = "teardown_dns"

\* The log watcher calls ppp_ip_up from inside run_event_loop.
\* With routes wanted, getattr(platform, 'wait_for_interface') raises
\* AttributeError on DarwinPlatform; on LinuxPlatform the process forks and
\* the parent (pid != 0) runs os.seteuid(0); os.setuid(0), waits for the
\* interface, installs the LAN0 routes and then blocks in os.waitpid(pid, 0),
\* while the child goes on through ppp_ip_up and back into run_event_loop.
IpUp ==
    /\ xpc = "loop"
    /\ ~ip_up_ran
    /\ ip_up_ran' = TRUE
    /\ IF RoutesWanted
       THEN IF platform_kind = "Darwin"
            THEN /\ loop_exit' = "AttributeError"
                 /\ xpc' = "teardown_dns"
                 /\ UNCHANGED <<euid, ruid, helper, events>>
            ELSE /\ helper' = "running"
                 /\ euid' = 0
                 /\ ruid' = 0
                 /\ \/ \* the routes are installed
                       /\ events' = Append(events, "setup_route")
                       /\ xpc' = "ipup_wait"
                       /\ UNCHANGED loop_exit
                    \/ \* parse_net_bits or the route command fails
                       /\ loop_exit' = "Exception"
                       /\ xpc' = "teardown_dns"
                       /\ UNCHANGED events
       ELSE /\ IpUpTail("loop")
            /\ UNCHANGED <<euid, ruid, helper>>
    /\ UNCHANGED <<otherThanExec, helper_events, start_uid, platform_kind, params, skip_dns,
                   skip_routes, attempt, connected, host_route, pppd,
                   pppd_status, pppd_seen, pppd_calls, raised>>

\* The forked child (pid == 0) skips the branch of the parent: it goes on
\* through the rest of ppp_ip_up, set_keepalive_host and setup_dns, and
\* returns from the log watcher into its own copy of run_event_loop, on the
\* same PTY, TLS socket and log pipe.
HelperIpUp ==
    /\ helper = "running"
    /\ helper' = "relaying"
    /\ helper_events' = << "set_keepalive_host" >>
                        \o (IF DnsWanted THEN << "setup_dns" >> ELSE << >>)
                        \o << "run_event_loop" >>
    /\ UNCHANGED <<otherThanExec, xpc, euid, ruid, start_uid, platform_kind,
                   params, skip_dns, skip_routes, attempt, connected,
                   host_route, pppd, pppd_status, ip_up_ran, loop_exit, events,
                   pppd_seen, pppd_calls, raised>>

\* The child's run_event_loop ends and the finally block of its execPPPd
\* runs: teardown_dns, then shutdown_pppd, whose os.waitpid(pid, WNOHANG)
\* raises ChildProcessError because PPPD is not a child of this process; the
\* child ends with that exception.
HelperExits ==
    /\ helper = "relaying"
    /\ helper' = "exited"
    /\ helper_events' = helper_events
                        \o (IF params.DNS0 THEN << "teardown_dns" >> ELSE << >>)
                        \o << "shutdown_pppd" >>
    /\ UNCHANGED <<otherThanExec, xpc, euid, ruid, start_uid, platform_kind,
                   params, skip_dns, skip_routes, attempt, connected,
                   host_route, pppd, pppd_status, ip_up_ran, loop_exit, events,
                   pppd_seen, pppd_calls, raised>>

\* os.waitpid(pid, 0) in ppp_ip_up returns; the parent finishes ppp_ip_up.
IpUpResume ==
    /\ xpc = "ipup_wait"
    /\ helper = "exited"
    /\ IpUpTail("loop")
    /\ UNCHANGED <<otherThanExec, helper_events, euid, ruid, start_uid, platform_kind, params,
                   skip_dns, skip_routes, attempt, connected, host_route, pppd,
                   pppd_status, helper, ip_up_ran, pppd_seen, pppd_calls,
                   raised>>

\* run_event_loop ends: EOF on a descriptor, Ctrl-C (also while ppp_ip_up
\* waits for the forked child), or any other exception.
LoopExit ==
    /\ xpc \in {"loop", "ipup_wait"}
    /\ \E how \in {"EOF", "KeyboardInterrupt", "Exception"} :
          /\ xpc = "ipup_wait" => how = "KeyboardInterrupt"
          /\ loop_exit' = how
    /\ xpc' = "teardown_dns"
    /\ UNCHANGED <<otherThanExec, helper_events, euid, ruid, start_uid, platform_kind, params,
                   skip_dns, skip_routes, attempt, connected, host_route, pppd,
                   pppd_status, helper, ip_up_ran, events, pppd_seen,
                   pppd_calls, raised>>

\* finally: if params.get('DNS0'): platform.teardown_dns()
\* Platform.teardown_dns is `pass`; the Linux mixins run
\* as_root(self._teardown_dns), whose body swallows every error.
TeardownDns ==
    /\ xpc = "teardown_dns"
    /\ IF params.DNS0
       THEN /\ events' = Append(events, "teardown_dns")
            /\ euid' = IF platform_kind = "Darwin" THEN euid ELSE as_root(ruid)
       ELSE UNCHANGED <<events, euid>>
    /\ xpc' = "shutdown_pppd"
    /\ UNCHANGED <<otherThanExec, helper_events, ruid, start_uid, platform_kind, params,
                   skip_dns, skip_routes, attempt, connected, host_route, pppd,
                   pppd_status, helper, ip_up_ran, loop_exit, pppd_seen,
                   pppd_calls, raised>>

\* if res_pid and result != 0:   -- the branch that only reports
ReportOnly(res_pid, result) == res_pid # 0 /\ result # 0

\* as_root(shutdown_pppd, pid):
\*     res_pid, result = os.waitpid(pid, os.WNOHANG)
\*     if res_pid and result != 0: report
\*     else: os.kill(pid, signal.SIGTERM); os.waitpid(pid, 0)
\* A child that has exited is reaped by the first waitpid; os.kill on the
\* reaped pid raises ProcessLookupError, or, if the pid has been given to
\* another process meanwhile, signals that process, and then os.waitpid
\* raises ChildProcessError.  An exception here leaves the finally block of
\* execPPPd at once.
ShutdownPppd ==
    /\ xpc = "shutdown_pppd"
    /\ events' = Append(events, "shutdown_pppd")
    /\ pppd_seen' = pppd
    /\ euid' = as_root(ruid)
    /\ LET res_pid == IF pppd = "zombie" THEN 1 ELSE 0
           result == IF pppd = "zombie" THEN pppd_status ELSE 0
       IN
       IF ReportOnly(res_pid, result)
       THEN /\ pppd' = "reaped"
            /\ pppd_calls' = << "waitpid_nohang" >>
            /\ xpc' = "delete_host_route"
            /\ UNCHANGED <<raised, pppd_status>>
       ELSE IF pppd = "zombie"
            THEN /\ pppd' = "reaped"
                 /\ \/ /\ pppd_calls' = << "waitpid_nohang", "kill" >>
                       /\ raised' = "ProcessLookupError"
                    \/ /\ pppd_calls' = << "waitpid_nohang", "kill", "waitpid" >>
                       /\ raised' = "ChildProcessError"
                 /\ xpc' = "end"
                 /\ UNCHANGED pppd_status
            ELSE /\ pppd' = "reaped"
                 /\ pppd_status' \in PppdStatuses
                 /\ pppd_calls' = << "waitpid_nohang", "kill", "waitpid" >>
                 /\ xpc' = "delete_host_route"
                 /\ UNCHANGED raised
    /\ UNCHANGED <<otherThanExec, helper_events, ruid, start_uid, platform_kind, params,
                   skip_dns, skip_routes, attempt, connected, host_route,
                   helper, ip_up_ran, loop_exit>>

\* try: platform.setup_route(..., 32, 'delete')  except: pass
\* Then the exception that ended the loop, if any, goes on to main.
DeleteHostRoute ==
    /\ xpc = "delete_host_route"
    /\ events' = Append(events, "delete_host_route")
    /\ host_route' \in {FALSE, host_route}
    /\ raised' = IF loop_exit = "EOF" THEN "none" ELSE loop_exit
    /\ xpc' = "end"
    /\ UNCHANGED <<otherThanExec, helper_events, euid, ruid, start_uid, platform_kind, params,
                   skip_dns, skip_routes, attempt, connected, pppd,
                   pppd_status, helper, ip_up_ran, loop_exit, pppd_seen,
                   pppd_calls>>

NextExec ==
    \/ DropPrivileges
    \/ ConnectAttempt
    \/ ConnectGiveUp
    \/ AddHostRoute
    \/ SpawnPppd
    \/ PppdExits
    \/ IpUp
    \/ HelperIpUp
    \/ HelperExits
    \/ IpUpResume
    \/ LoopExit
    \/ TeardownDns
    \/ ShutdownPppd
    \/ DeleteHostRoute

\* ===================================================================== main

\* The values an MRHSession cookie of a login answer can have: the pattern
\* 'Set-Cookie: MRHSession=([^;]*);' also matches an empty value.
CookieValues == {"S1", "S2", "deleted", ""}

\* The sessions a login can give.
NewSessions == CookieValues \ {"deleted"}

\* A login answer, as far as do_login looks at it: the values of its
\* 'Set-Cookie: MRHSession=...;' header lines in order, whether it contains
\* "Either Username or Password do not match!", and whether it contains
\* "Challenge: ...".
LoginResponses ==
    [cookies : UNION {[1..n -> CookieValues] : n \in 0..MaxCookies},
     mismatch : BOOLEAN,
     challenge : BOOLEAN]

\* No login answer yet.
NoResponse == [cookies |-> << >>, mismatch |-> FALSE, challenge |-> FALSE]

\* session = None
\* for match in pat.finditer(result):
\*     sessid = match.group(1)
\*     if sessid == "deleted": session = None
\*     else: session = sessid
RECURSIVE CookieLoop(_, _)
CookieLoop(cookies, sess) ==
    IF cookies = << >>
    THEN sess
    ELSE CookieLoop(Tail(cookies),
                    IF Head(cookies) = "deleted" THEN "None"
                    ELSE Head(cookies))

\* do_login looking for the challenge before the wrong-password text.
do_login_challengeFirst(result) ==
    LET sess == CookieLoop(result.cookies, "None") IN
    IF sess = "None"
    THEN IF result.challenge
         THEN [kind |-> "return", session |-> "None", code |-> 0]
         ELSE IF result.mismatch
         THEN [kind |-> "exit", session |-> "None", code |-> 3]
         ELSE [kind |-> "exit", session |-> "None", code |-> 1]
    ELSE [kind |-> "return", session |-> sess, code |-> 0]

\* do_login after send_request: the session it returns, or None after a
\* challenge, or the code it exits with.
do_login(result) ==
    LET sess == CookieLoop(result.cookies, "None") IN
    IF sess = "None"
    THEN IF result.mismatch
         THEN [kind |-> "exit", session |-> "None", code |-> 3]
         ELSE IF result.challenge
         THEN [kind |-> "return", session |-> "None", code |-> 0]
         ELSE [kind |-> "exit", session |-> "None", code |-> 1]
    ELSE [kind |-> "return", session |-> sess, code |-> 0]

\* The user@host values of the cache file and of the command line.
Userhosts == {"me@gw", "you@gw2"}

\* The NUL and newline characters of the cache file.
NUL == "NUL"

LF == "LF"

\* The characters of the strings main writes to the cache file:
\* userhost, session and str(current_time).
FieldChars(str) ==
    CASE str = "me@gw" -> << "m", "e", "@", "g", "w" >>
      [] str = "you@gw2" -> << "y", "o", "u", "@", "g", "w", "2" >>
      [] str = "S0" -> << "S", "0" >>
      [] str = "S1" -> << "S", "1" >>
      [] str = "S2" -> << "S", "2" >>
      [] str = "SX" -> << "S", "X" >>
      [] str = "" -> << >>
      [] str = "then" -> << "1", "7" >>
      [] str = "now" -> << "1", "8" >>

\* '\0'.join(fields)
RECURSIVE JoinNul(_)
JoinNul(fields) ==
    IF fields = << >> THEN << >>
    ELSE IF Len(fields) = 1 THEN fields[1]
    ELSE fields[1] \o << NUL >> \o JoinNul(Tail(fields))

\* '\0'.join(['', userhost, session, str(current_time)]) without its
\* leading empty field.
PrefsLine_noPath(uh, sess, time) ==
    JoinNul(<< FieldChars(uh), FieldChars(sess), FieldChars(time) >>)

\* '\0'.join(['', userhost, session, str(current_time)])
PrefsLine(uh, sess, time) ==
    JoinNul(<< << >>, FieldChars(uh), FieldChars(sess), FieldChars(time) >>)

\* conf.readline(): the characters up to and including the first newline.
RECURSIVE readline(_)
readline(text) ==
    IF text = << >> THEN << >>
    ELSE IF Head(text) = LF THEN << LF >>
    ELSE << Head(text) >> \o readline(Tail(text))

\* line.split('\0')
RECURSIVE SplitNul(_, _)
SplitNul(line, field) ==
    IF line = << >> THEN << field >>
    ELSE IF Head(line) = NUL
    THEN << field >> \o SplitNul(Tail(line), << >>)
    ELSE SplitNul(Tail(line), Append(field, Head(line)))

\* prefs = get_prefs()
\* path, userhost, old_session, old_time = prefs.split('\0')
\* which raises ValueError unless there are exactly four fields.
get_prefs(text) ==
    LET parts == SplitNul(readline(text), << >>) IN
    IF Len(parts) = 4
    THEN [ok |-> TRUE, path |-> parts[1], userhost |-> parts[2],
          old_session |-> parts[3], old_time |-> parts[4]]
    ELSE [ok |-> FALSE, path |-> << >>, userhost |-> << >>,
          old_session |-> << >>, old_time |-> << >>]

\* ~/.f5vpn-login.conf: missing or unreadable, or the record write_prefs
\* wrote in an earlier run.
PrefsFiles ==
    {[present |-> FALSE, userhost |-> "None", session |-> "None",
      time |-> "None"],
     [present |-> TRUE, userhost |-> "me@gw", session |-> "S0",
      time |-> "then"]}

\* main after getopt: argv holds at most one host argument and possibly
\* --sessionid.
MainInit ==
    /\ mpc = "start"
    /\ prefs_file \in PrefsFiles
    /\ args_host \in {"None"} \cup Userhosts
    /\ opt_session \in {"None", "SX"}
    /\ session = "None"
    /\ old_session = "None"
    /\ userhost = "None"
    /\ vpn_params = "None"
    /\ requests = << >>
    /\ prompts = 0
    /\ writes = 0
    /\ tunnel_session = "None"
    /\ exit_code = "None"
    /\ login_result = NoResponse
    /\ prefs_line = (IF prefs_file.present
                     THEN PrefsLine(prefs_file.userhost, prefs_file.session,
                                    prefs_file.time)
                     ELSE << >>)
    /\ tunnel_end = "None"

MainIdle ==
    /\ mpc = "start"
    /\ prefs_file = [present |-> FALSE, userhost |-> "None",
                     session |-> "None", time |-> "None"]
    /\ args_host = "None"
    /\ opt_session = "None"
    /\ session = "None"
    /\ old_session = "None"
    /\ userhost = "None"
    /\ vpn_params = "None"
    /\ requests = << >>
    /\ prompts = 0
    /\ writes = 0
    /\ tunnel_session = "None"
    /\ exit_code = "None"
    /\ login_result = NoResponse
    /\ prefs_line = << >>
    /\ tunnel_end = "None"

\* if args[0] != userhost: old_session = None
OldSessionAfterArgs_keep(arg, cached_userhost, cached_session) ==
    cached_session

OldSessionAfterArgs(arg, cached_userhost, cached_session) ==
    IF arg # cached_userhost THEN "None" ELSE cached_session

\* if session is None and old_session is not None:
TryOld(sess, old) == sess = "None" /\ old # "None"

\* if menu_number is not None: params = ...; session = old_session
SessionAfterMenu_always(menu_ok, sess, old) == old

SessionAfterMenu(menu_ok, sess, old) == IF menu_ok THEN old ELSE sess

\* A request sent to the gateway with a session cookie, and whether the
\* answer was usable.
Request(kind, sess, ok) == [kind |-> kind, session |-> sess, ok |-> ok]

\* prefs = get_prefs() ... the option loop ... int(old_time).
\* Without a cache file old_time stays None and int(old_time) raises
\* TypeError, which nothing catches.
ReadPrefsAndArgs ==
    /\ mpc = "start"
    /\ LET cached_userhost == prefs_file.userhost
           cached_session == prefs_file.session
           olds == IF args_host # "None"
                   THEN OldSessionAfterArgs(args_host, cached_userhost,
                                            cached_session)
                   ELSE cached_session
           uh == IF args_host # "None" THEN args_host ELSE cached_userhost
       IN
       IF uh = "None"
       THEN /\ mpc' = "exit"
            /\ exit_code' = 1
            /\ UNCHANGED <<session, old_session, userhost>>
       ELSE /\ userhost' = uh
            /\ old_session' = olds
            /\ session' = opt_session
            /\ IF prefs_file.present
               THEN /\ mpc' = "try_old"
                    /\ UNCHANGED exit_code
               ELSE /\ mpc' = "exit"
                    /\ exit_code' = 1
    /\ UNCHANGED <<otherThanMain, prefs_line, tunnel_end, login_result, prefs_file, args_host, opt_session,
                   vpn_params, requests, prompts, writes, tunnel_session>>

\* if session is None and old_session is not None:
\*     menu_number = get_vpn_menu_number(host, old_session)
\*     if menu_number is not None:
\*         params = get_VPN_params(host, old_session, menu_number)
\*         session = old_session
\* The gateway answers the favorite listing with a list or with a 302; it
\* answers the parameter request with the parameters of the session it was
\* asked with, or with something get_VPN_params makes None of.
TryOldSession ==
    /\ mpc = "try_old"
    /\ IF TryOld(session, old_session)
       THEN \/ \* 302: get_vpn_menu_number returns None
               /\ requests' = Append(requests,
                                     Request("menu", old_session, FALSE))
               /\ session' = SessionAfterMenu(FALSE, session, old_session)
               /\ mpc' = "login"
               /\ UNCHANGED <<vpn_params, exit_code>>
            \/ \* the answer cannot be parsed: get_vpn_menu_number raises
               /\ requests' = Append(requests,
                                     Request("menu", old_session, FALSE))
               /\ mpc' = "exit"
               /\ exit_code' = 1
               /\ UNCHANGED <<session, vpn_params>>
            \/ \E got \in BOOLEAN :
               /\ requests' = requests \o
                     << Request("menu", old_session, TRUE),
                        Request("params", old_session, got) >>
               /\ vpn_params' = IF got THEN old_session ELSE "None"
               /\ session' = SessionAfterMenu(TRUE, session, old_session)
               /\ mpc' = "login"
               /\ UNCHANGED exit_code
       ELSE /\ mpc' = "login"
            /\ UNCHANGED <<requests, session, vpn_params, exit_code>>
    /\ UNCHANGED <<otherThanMain, prefs_line, tunnel_end, login_result, prefs_file, args_host, opt_session,
                   old_session, userhost, prompts, writes, tunnel_session>>

\* if params is None: while session is None: getpass twice, do_login.
\* do_login returns the new session, returns None after a challenge, or
\* exits with 3 (wrong password) or 1 (unknown answer).
LoginStep ==
    /\ mpc = "login"
    /\ IF vpn_params # "None"
       THEN /\ mpc' = "check"
            /\ UNCHANGED <<session, requests, prompts, exit_code,
                           login_result>>
       ELSE IF session # "None"
       THEN /\ mpc' = "get_params"
            /\ UNCHANGED <<session, requests, prompts, exit_code,
                           login_result>>
       ELSE /\ prompts < MaxPrompts
            /\ prompts' = prompts + 1
            /\ \E result \in LoginResponses :
               LET out == do_login(result) IN
               /\ login_result' = result
               /\ requests' = Append(requests,
                      Request("login", "None", out.kind = "return"
                                               /\ out.session # "None"))
               /\ IF out.kind = "exit"
                  THEN /\ mpc' = "exit"
                       /\ exit_code' = out.code
                       /\ UNCHANGED session
                  ELSE IF out.session = "None"
                  THEN \* the while loop goes round again
                       UNCHANGED <<session, mpc, exit_code>>
                  ELSE /\ session' = out.session
                       /\ mpc' = "get_params"
                       /\ UNCHANGED exit_code
    /\ UNCHANGED <<otherThanMain, prefs_line, tunnel_end, prefs_file, args_host, opt_session,
                   old_session, userhost, vpn_params, writes, tunnel_session>>

\* menu_number = get_vpn_menu_number(host, session); None: sys.exit(1)
\* params = get_VPN_params(host, session, menu_number)
GetParams ==
    /\ mpc = "get_params"
    /\ \/ /\ requests' = Append(requests, Request("menu", session, FALSE))
          /\ mpc' = "exit"
          /\ exit_code' = 1
          /\ UNCHANGED vpn_params
       \/ \E got \in BOOLEAN :
          /\ requests' = requests \o << Request("menu", session, TRUE),
                                        Request("params", session, got) >>
          /\ vpn_params' = IF got THEN session ELSE "None"
          /\ mpc' = "check"
          /\ UNCHANGED exit_code
    /\ UNCHANGED <<otherThanMain, prefs_line, tunnel_end, login_result, prefs_file, args_host, opt_session, session,
                   old_session, userhost, prompts, writes, tunnel_session>>

\* if params is None: sys.exit(2)
\* write_prefs('\0'.join(['', userhost, session, str(current_time)])):
\* open(..., 'w') empties the file and f.write(line) puts the line there;
\* when the file cannot be opened write_prefs only prints a message.
CheckAndWritePrefs ==
    /\ mpc = "check"
    /\ IF vpn_params = "None"
       THEN /\ mpc' = "exit"
            /\ exit_code' = 2
            /\ UNCHANGED <<prefs_file, prefs_line, writes>>
       ELSE /\ mpc' = "exec"
            /\ writes' = writes + 1
            /\ \/ /\ prefs_file' = [present |-> TRUE, userhost |-> userhost,
                                    session |-> session, time |-> "now"]
                  /\ prefs_line' = PrefsLine(userhost, session, "now")
               \/ UNCHANGED <<prefs_file, prefs_line>>
            /\ UNCHANGED exit_code
    /\ UNCHANGED <<otherThanMain, tunnel_end, login_result, args_host, opt_session,
                   session, old_session, userhost, vpn_params, requests,
                   prompts, tunnel_session>>

\* as_root(shutdown_pppd, pid) in the finally block of execPPPd raises
\* (ProcessLookupError or ChildProcessError, both OSError) when PPPD has
\* exited and the branch that only reports is not taken.
ShutdownRaises(child, status) == child = "zombie" /\ ~ReportOnly(1, status)

\* What leaves execPPPd after its relay loop ended with `how`: an exception
\* of the finally block replaces the one that ended the loop.
ExecRaises(how, child, status) ==
    IF ShutdownRaises(child, status) THEN "OSError"
    ELSE IF how = "EOF" THEN "none"
    ELSE how

\* try: execPPPd(...)  except KeyboardInterrupt: pass
\* except SystemExit as se: print(se)
\* print("Shut-down."): main returns and the process ends with code 0; any
\* other exception ends it with a traceback and code 1.
ExitCodeAfter(exception) ==
    IF exception \in {"none", "KeyboardInterrupt", "SystemExit"} THEN 0 ELSE 1

\* execPPPd(params, ...) with Session_ID of params in the tunnel request.
\* Its relay loop ends by EOF, by Ctrl-C or by another exception, with PPPD
\* still running or already exited.
RunTunnel ==
    /\ mpc = "exec"
    /\ tunnel_session' = vpn_params
    /\ mpc' = "exit"
    /\ \E how \in {"EOF", "KeyboardInterrupt", "Exception"},
          child \in {"running", "zombie"}, status \in PppdStatuses :
          /\ tunnel_end' = how
          /\ exit_code' = ExitCodeAfter(ExecRaises(how, child, status))
    /\ UNCHANGED <<otherThanMain, prefs_line, login_result, prefs_file, args_host,
                   opt_session, session, old_session, userhost, vpn_params,
                   requests, prompts, writes>>

NextMain ==
    \/ ReadPrefsAndArgs
    \/ TryOldSession
    \/ LoginStep
    \/ GetParams
    \/ CheckAndWritePrefs
    \/ RunTunnel

\* ================================================= route specs and LAN0 routes

\* Octets the netmask of a route spec is made of: those of the contiguous
\* masks, and two more.
MaskOctets == {0, 128, 192, 224, 240, 248, 252, 254, 255, 1, 170}

\* Octets of the network addresses.
NetOctets == {0, 10, 172, 255}

\* A route spec as parse_net_bits splits it: the numbers before the '/'
\* (or the whole spec when there is none), and after the '/' either a number
\* of bits or the numbers of a dotted netmask.
RouteSpec(net, form, bits, mask) ==
    [net |-> net, form |-> form, bits |-> bits, mask |-> mask]

\* while len(netparts) < 4: netparts.append(0)
RECURSIVE Pad4(_)
Pad4(parts) == IF Len(parts) < 4 THEN Pad4(Append(parts, 0)) ELSE parts

\* The key 2 ** 32 - 2 ** (32 - x) of mask2bits, written as its four octets,
\* most significant first.
Mask2BitsKey_shifted(x) ==
    [j \in 1..4 |-> 256 - 2 ^ (8 - Max(0, Min(8, x + 1 - 8 * (j - 1))))]

Mask2BitsKey(x) ==
    [j \in 1..4 |-> 256 - 2 ^ (8 - Max(0, Min(8, x - 8 * (j - 1))))]

\* for n in netmaskparts: netmask = netmask * 256 + n
\* netmask *= 256 ** (4 - len(netmaskparts))
\* The number is kept as its octets; the parts are octets here.
Netmask(netmaskparts) == Pad4(netmaskparts)

\* mask2bits.get(netmask): the x in range(33) with that key, or None (-1).
mask2bits_get(netmask) ==
    IF \E x \in 0..32 : Mask2BitsKey(x) = netmask
    THEN CHOOSE x \in 0..32 : Mask2BitsKey(x) = netmask
    ELSE -1

ParseError == [ok |-> FALSE, netparts |-> << >>, bits |-> 0]

parse_net_bits(routespec) ==
    IF routespec.form = "plain"
    THEN [ok |-> TRUE, netparts |-> Pad4(routespec.net),
          bits |-> Len(routespec.net) * 8]
    ELSE IF routespec.form = "mask"
    THEN LET bits == mask2bits_get(Netmask(routespec.mask)) IN
         IF bits = -1
         THEN ParseError
         ELSE [ok |-> TRUE, netparts |-> Pad4(routespec.net), bits |-> bits]
    ELSE [ok |-> TRUE, netparts |-> Pad4(routespec.net),
          bits |-> routespec.bits]

\* A reverse-DNS domain: its numeric labels, first label first, before the
\* suffix.
Domain(labels) == [labels |-> labels, suffix |-> "in-addr.arpa"]

\* netparts[i] & ~(2 ** remaining_bits - 1), for an octet
ClearLow_keep(n, remaining_bits) == n

ClearLow(n, remaining_bits) == n - (n % (2 ^ remaining_bits))

\* while bits >= 8: domain = str(netparts[i]) + '.' + domain; bits -= 8; i += 1
\* The labels of domain when the loop ends; netparts is indexed from 1 here.
RECURSIVE PrefixLoop(_, _, _, _)
PrefixLoop(netparts, bits, i, labels) ==
    IF bits >= 8
    THEN PrefixLoop(netparts, bits - 8, i + 1, << netparts[i + 1] >> \o labels)
    ELSE labels

routespec_to_revdns(netparts, bits) ==
    LET labels == PrefixLoop(netparts, bits, 0, << >>)
        i == bits \div 8
        rest == bits % 8
    IN
    IF rest = 0
    THEN << Domain(labels) >>
    ELSE LET remaining_bits == 8 - rest
             start_addr == ClearLow(netparts[i + 1], remaining_bits)
         IN [n \in 1..(2 ^ remaining_bits) |->
                Domain(<< start_addr + n - 1 >> \o labels)]

\* setup_route of execPPPd:
\*     for routespec in params['LAN0'].split(' '):
\*         net, bits = parse_net_bits(routespec)
\*         platform.setup_route(iface_name, local_ip, net, bits, 'add')
\*         revdns_domains.extend(routespec_to_revdns(net, bits))
\* fail_at is the round whose route command fails (0: none does).
RECURSIVE SetupRouteLoop(_, _, _, _, _)
SetupRouteLoop(specs, k, fail_at, routes, domains) ==
    IF specs = << >>
    THEN [routes |-> routes, domains |-> domains, error |-> "none"]
    ELSE LET parsed == parse_net_bits(Head(specs)) IN
         IF ~parsed.ok
         THEN [routes |-> routes, domains |-> domains,
               error |-> "parse_net_bits"]
         ELSE IF k = fail_at
         THEN [routes |-> routes, domains |-> domains,
               error |-> "run_as_root"]
         ELSE SetupRouteLoop(Tail(specs), k + 1, fail_at,
                 Append(routes, [net |-> parsed.netparts,
                                 bits |-> parsed.bits]),
                 domains \o routespec_to_revdns(parsed.netparts, parsed.bits))

\* The specs LAN0 is made of.
GoodSpecs ==
    {RouteSpec(<< 10 >>, "bits", 8, << >>),
     RouteSpec(<< 172, 16, 0, 0 >>, "mask", 0, << 255, 240, 0, 0 >>),
     RouteSpec(<< 192, 168, 1 >>, "plain", 0, << >>)}

BadSpec == RouteSpec(<< 10, 0, 0, 0 >>, "mask", 0, << 255, 0, 255, 0 >>)

Lan0Lists ==
    UNION {[1..n -> GoodSpecs \cup {BadSpec}] : n \in 1..MaxRoutes}

\* The inputs parse_net_bits is applied to.
ParseInputs ==
    {RouteSpec(net, "mask", 0, mask) :
        net \in {<< 10 >>, << 172, 16, 5, 7 >>},
        mask \in [1..4 -> MaskOctets]}
    \cup {RouteSpec(net, "bits", k, << >>) :
        net \in {<< 10 >>, << 172, 16, 5, 7 >>}, k \in 0..32}
    \cup {RouteSpec(net, "plain", 0, << >>) :
        net \in {<< 10 >>, << 10, 1 >>, << 10, 1, 2 >>, << 10, 1, 2, 3 >>}}

RouteIdle ==
    /\ rpc = "start"
    /\ parse_in = RouteSpec(<< 10 >>, "plain", 0, << >>)
    /\ parse_out = ParseError
    /\ rev_netparts = << 0, 0, 0, 0 >>
    /\ rev_bits = 0
    /\ rev_out = << >>
    /\ lan0_list = << >>
    /\ lan_routes = << >>
    /\ revdns_domains = << >>
    /\ route_error = "none"

ParseInit ==
    /\ rpc = "start"
    /\ parse_in \in ParseInputs
    /\ parse_out = ParseError
    /\ rev_netparts = << 0, 0, 0, 0 >>
    /\ rev_bits = 0
    /\ rev_out = << >>
    /\ lan0_list = << >>
    /\ lan_routes = << >>
    /\ revdns_domains = << >>
    /\ route_error = "none"

RevdnsInit ==
    /\ rpc = "start"
    /\ parse_in = RouteSpec(<< 10 >>, "plain", 0, << >>)
    /\ parse_out = ParseError
    /\ rev_netparts \in [1..4 -> NetOctets]
    /\ rev_bits \in 0..32
    /\ rev_out = << >>
    /\ lan0_list = << >>
    /\ lan_routes = << >>
    /\ revdns_domains = << >>
    /\ route_error = "none"

RoutesInit ==
    /\ rpc = "start"
    /\ parse_in = RouteSpec(<< 10 >>, "plain", 0, << >>)
    /\ parse_out = ParseError
    /\ rev_netparts = << 0, 0, 0, 0 >>
    /\ rev_bits = 0
    /\ rev_out = << >>
    /\ lan0_list \in Lan0Lists
    /\ lan_routes = << >>
    /\ revdns_domains = << >>
    /\ route_error = "none"

\* net, bits = parse_net_bits(routespec)
ParseNetBits ==
    /\ rpc = "start"
    /\ parse_out' = parse_net_bits(parse_in)
    /\ rpc' = "done"
    /\ UNCHANGED <<otherThanRoute, parse_in, rev_netparts, rev_bits, rev_out,
                   lan0_list, lan_routes, revdns_domains, route_error>>

\* routespec_to_revdns(net, bits)
RoutespecToRevdns ==
    /\ rpc = "start"
    /\ rev_out' = routespec_to_revdns(rev_netparts, rev_bits)
    /\ rpc' = "done"
    /\ UNCHANGED <<otherThanRoute, parse_in, parse_out, rev_netparts,
                   rev_bits, lan0_list, lan_routes, revdns_domains, route_error>>

\* setup_route(iface_name, local_ip, revdns_domains), called by ppp_ip_up.
SetupRoute ==
    /\ rpc = "start"
    /\ \E fail_at \in 0..Len(lan0_list) :
          LET out == SetupRouteLoop(lan0_list, 1, fail_at, << >>, << >>) IN
          /\ lan_routes' = out.routes
          /\ revdns_domains' = out.domains
          /\ route_error' = out.error
    /\ rpc' = "done"
    /\ UNCHANGED <<otherThanRoute, parse_in, parse_out, rev_netparts,
                   rev_bits, rev_out, lan0_list>>

NextParse ==
    \/ ParseNetBits

NextRevdns ==
    \/ RoutespecToRevdns

NextRoutes ==
    \/ SetupRoute

\* ============================================ ManualFrobbingDNSMixin

\* A file: whether it exists, what is in it, and its st_mtime.
File(content, mtime) == [exists |-> TRUE, content |-> content, mtime |-> mtime]

NoFile == [exists |-> FALSE, content |-> "", mtime |-> 0]

\* A LinuxPlatform with the manual mixin before setup_dns:
\* resolv_conf_timestamp = 0, /etc/resolv.conf as the system has it (or
\* absent), no backup.
DnsInit ==
    /\ dpc = "start"
    /\ resolv_conf \in {File("orig", 1), NoFile}
    /\ resolv_conf_bak \in {NoFile, File("stale", 1)}
    /\ resolv_conf_timestamp = 0
    /\ dns_clock = 2
    /\ dns_before = << NoFile, NoFile, 0 >>

DnsIdle ==
    /\ dpc = "start"
    /\ resolv_conf = NoFile
    /\ resolv_conf_bak = NoFile
    /\ resolv_conf_timestamp = 0
    /\ dns_clock = 2
    /\ dns_before = << NoFile, NoFile, 0 >>

\* setup_dns: as_root(_create_file), which renames /etc/resolv.conf to
\* /etc/resolv.conf.f5_bak and writes the new file; then
\* self.resolv_conf_timestamp = os.stat('/etc/resolv.conf').st_mtime.
\* os.rename raises when there is no /etc/resolv.conf, and the write can
\* fail after the rename; both leave resolv_conf_timestamp at 0.
SetupDns ==
    /\ dpc = "start"
    /\ dpc' = "running"
    /\ IF ~resolv_conf.exists
       THEN UNCHANGED <<resolv_conf, resolv_conf_bak, resolv_conf_timestamp>>
       ELSE /\ resolv_conf_bak' = resolv_conf
            /\ \/ /\ resolv_conf' = File("vpn", dns_clock)
                  /\ resolv_conf_timestamp' = dns_clock
               \/ /\ resolv_conf' = NoFile
                  /\ UNCHANGED resolv_conf_timestamp
    /\ UNCHANGED <<otherThanDns, dns_clock, dns_before>>

\* setup_dns is not called (--skip-dns, or the link never came up) while
\* teardown_dns will be.
NoSetupDns ==
    /\ dpc = "start"
    /\ dpc' = "running"
    /\ UNCHANGED <<otherThanDns, resolv_conf, resolv_conf_bak,
                   resolv_conf_timestamp, dns_clock, dns_before>>

\* Time passes before and while the tunnel is up.
Tick ==
    /\ dpc \in {"start", "running"}
    /\ dns_clock < MaxClock
    /\ dns_clock' = dns_clock + 1
    /\ UNCHANGED <<otherThanDns, dpc, resolv_conf, resolv_conf_bak,
                   resolv_conf_timestamp, dns_before>>

\* Another process rewrites /etc/resolv.conf while the tunnel is up.
OtherProcessWrites ==
    /\ dpc = "running"
    /\ resolv_conf' = File("other", dns_clock)
    /\ UNCHANGED <<otherThanDns, dpc, resolv_conf_bak, resolv_conf_timestamp,
                   dns_clock, dns_before>>

\* Another process removes /etc/resolv.conf while the tunnel is up.
OtherProcessRemoves ==
    /\ dpc = "running"
    /\ resolv_conf.exists
    /\ resolv_conf' = NoFile
    /\ UNCHANGED <<otherThanDns, dpc, resolv_conf_bak, resolv_conf_timestamp,
                   dns_clock, dns_before>>

\* elif os.stat('/etc/resolv.conf').st_mtime == self.resolv_conf_timestamp:
SameMtime_always(mtime, timestamp) == TRUE

SameMtime(mtime, timestamp) == mtime = timestamp

\* _teardown_dns:
\*     try:
\*         if self.resolv_conf_timestamp == 0: pass
\*         elif os.stat(...).st_mtime == self.resolv_conf_timestamp:
\*             os.rename('/etc/resolv.conf.f5_bak', '/etc/resolv.conf')
\*         else: os.unlink('/etc/resolv.conf.f5_bak')
\*     except: pass
\* os.stat raises when the file is gone; os.rename and os.unlink raise when
\* the backup is gone.
TeardownDnsManual ==
    /\ dpc = "running"
    /\ dpc' = "done"
    /\ dns_before' = << resolv_conf, resolv_conf_bak, resolv_conf_timestamp >>
    /\ IF resolv_conf_timestamp = 0
       THEN UNCHANGED <<resolv_conf, resolv_conf_bak>>
       ELSE IF ~resolv_conf.exists
       THEN UNCHANGED <<resolv_conf, resolv_conf_bak>>
       ELSE IF SameMtime(resolv_conf.mtime, resolv_conf_timestamp)
       THEN IF resolv_conf_bak.exists
            THEN /\ resolv_conf' = resolv_conf_bak
                 /\ resolv_conf_bak' = NoFile
            ELSE UNCHANGED <<resolv_conf, resolv_conf_bak>>
       ELSE /\ resolv_conf_bak' = NoFile
            /\ UNCHANGED resolv_conf
    /\ UNCHANGED <<otherThanDns, resolv_conf_timestamp, dns_clock>>

NextDns ==
    \/ SetupDns
    \/ NoSetupDns
    \/ Tick
    \/ OtherProcessWrites
    \/ OtherProcessRemoves
    \/ TeardownDnsManual

\* ======================================= LinuxPlatform.wait_for_interface

\* What one look at /sys/class/net/<iface>/operstate can give: the file's
\* content, or "missing" when open raises IOError.
Operstates == {"up", "unknown", "down", "dormant", "missing"}

\* iface_up = False; already_unknown = False
IfaceInit ==
    /\ wpc = "poll"
    /\ iface_up = FALSE
    /\ already_unknown = FALSE
    /\ observed = << >>

IfaceIdle == IfaceInit

\* if state == 'up': iface_up = True
\* elif state == 'unknown': if already_unknown: iface_up = True
IfaceUpAfter(state, seen_unknown) ==
    state = "up" \/ (state = "unknown" /\ seen_unknown)

\* elif state == 'unknown': ... already_unknown = True
\* else: already_unknown = True
\* except IOError: (nothing is assigned)
AlreadyUnknownAfter(state, seen_unknown) ==
    IF state \in {"up", "missing"} THEN seen_unknown
    ELSE IF state = "unknown" /\ seen_unknown THEN seen_unknown
    ELSE TRUE

\* One round of `while not iface_up:`: read operstate, decide, and unless
\* the interface counts as up, time.sleep(5).
PollOperstate ==
    /\ wpc = "poll"
    /\ ~iface_up
    /\ Len(observed) < MaxObs
    /\ \E state \in Operstates :
          /\ observed' = Append(observed, state)
          /\ iface_up' = IfaceUpAfter(state, already_unknown)
          /\ already_unknown' = AlreadyUnknownAfter(state, already_unknown)
    /\ UNCHANGED <<otherThanIface, wpc>>

\* The loop test fails: print('Interface %s is up!') and return.
WaitReturn ==
    /\ wpc = "poll"
    /\ iface_up
    /\ wpc' = "done"
    /\ UNCHANGED <<otherThanIface, iface_up, already_unknown, observed>>

NextIface ==
    \/ PollOperstate
    \/ WaitReturn

\* ====================================== get_vpn_menu_number: the selection

\* The numbers the user can type at the prompt.
InputNumbers == -1 .. MaxFavs + 1

\* favs has been built from the gateway's answer.
MenuInit ==
    /\ fpc = "start"
    /\ nfavs \in 0..MaxFavs
    /\ selected_fav = -1
    /\ inputs = << >>

MenuIdle ==
    /\ fpc = "start"
    /\ nfavs = 1
    /\ selected_fav = -1
    /\ inputs = << >>

\* while selected_fav < 0 or selected_fav > len(favs) - 1:
\* with the upper limit off by one.
OutOfRange_offByOne(selected, n) == selected < 0 \/ selected > n

\* while selected_fav < 0 or selected_fav > len(favs) - 1:
OutOfRange(selected, n) == selected < 0 \/ selected > n - 1

\* if len(favs) == 1: selected_fav = 0
\* else: selected_fav = -1
SelectStart ==
    /\ fpc = "start"
    /\ selected_fav' = (IF nfavs = 1 THEN 0 ELSE -1)
    /\ fpc' = "prompt"
    /\ UNCHANGED <<otherThanMenu, nfavs, inputs>>

\* One round of the while loop: the menu is printed and
\* selected_fav = int(input()) reads a number.
ReadInput ==
    /\ fpc = "prompt"
    /\ OutOfRange(selected_fav, nfavs)
    /\ Len(inputs) < MaxInputs
    /\ \E x \in InputNumbers :
          /\ inputs' = Append(inputs, x)
          /\ selected_fav' = x
    /\ UNCHANGED <<otherThanMenu, fpc, nfavs>>

\* The line read is not a number (int raises ValueError), or standard input
\* is at its end (input raises EOFError).
ReadInputRaises ==
    /\ fpc = "prompt"
    /\ OutOfRange(selected_fav, nfavs)
    /\ fpc' = "raised"
    /\ UNCHANGED <<otherThanMenu, nfavs, selected_fav, inputs>>

\* The loop test fails: print("Connecting to " + ...) and return.
MenuReturn ==
    /\ fpc = "prompt"
    /\ ~OutOfRange(selected_fav, nfavs)
    /\ fpc' = "done"
    /\ UNCHANGED <<otherThanMenu, nfavs, selected_fav, inputs>>

NextMenu ==
    \/ SelectStart
    \/ ReadInput
    \/ ReadInputRaises
    \/ MenuReturn

\* ============================== run_event_loop: the sizes of its buffers

\* Bytes that can be waiting in the kernel when the loop reads the PTY or
\* the TLS socket.
PendingAmounts ==
    {0, 1, BUF_SIZE - 1, BUF_SIZE, BUF_SIZE + 1, MaxBacklog * BUF_SIZE}

\* data_to_pppd = ''; data_to_ssl = ''; data_to_ssl_buf2 = ''
SizeInit ==
    /\ spc = "readpppd"
    /\ len_to_pppd = 0
    /\ len_to_ssl = 0
    /\ len_to_ssl_buf2 = 0

SizeIdle == SizeInit

\* A read that hands over everything that is waiting, whatever was asked.
ReadSizes_unlimited(waiting, wanted) ==
    {n \in {1, waiting - 1, waiting} : n >= 1}

\* The byte counts os.read(fd, BUF_SIZE) and ssl_socket.read(BUF_SIZE) can
\* return with `waiting` bytes at hand: at least one, at most `wanted`.
ReadSizes(waiting, wanted) ==
    {n \in {1, Min(waiting, wanted) - 1, Min(waiting, wanted)} : n >= 1}

\* if not data_to_ssl: data_to_ssl = os.read(pppd_fd, BUF_SIZE)
SizeReadPppd ==
    /\ spc = "readpppd"
    /\ IF len_to_ssl # 0
       THEN /\ spc' = "readssl"
            /\ UNCHANGED len_to_ssl
       ELSE \/ \E waiting \in PendingAmounts :
               \E n \in ReadSizes(waiting, BUF_SIZE) :
                 /\ len_to_ssl' = n
                 /\ spc' = "readssl"
            \/ \* EAGAIN / EINTR
               /\ spc' = "readssl"
               /\ UNCHANGED len_to_ssl
            \/ \* EOF: break
               /\ spc' = "done"
               /\ UNCHANGED len_to_ssl
    /\ UNCHANGED <<otherThanSize, len_to_pppd, len_to_ssl_buf2>>

\* if not data_to_pppd: data_to_pppd = ssl_socket.read(BUF_SIZE)
SizeReadSsl ==
    /\ spc = "readssl"
    /\ IF len_to_pppd # 0
       THEN /\ spc' = "writepppd"
            /\ UNCHANGED len_to_pppd
       ELSE \/ \E waiting \in PendingAmounts :
               \E n \in ReadSizes(waiting, BUF_SIZE) :
                 /\ len_to_pppd' = n
                 /\ spc' = "writepppd"
            \/ \* SSL_ERROR_WANT_READ / SSL_ERROR_WANT_WRITE
               /\ spc' = "writepppd"
               /\ UNCHANGED len_to_pppd
            \/ \* EOF: break
               /\ spc' = "done"
               /\ UNCHANGED len_to_pppd
    /\ UNCHANGED <<otherThanSize, len_to_ssl, len_to_ssl_buf2>>

\* The byte counts os.write(pppd_fd, data_to_pppd) can return: all of the
\* buffer, or a part of it.
WriteSizes(have) == {n \in {(have + 1) \div 2, have} : n >= 1}

\* if data_to_pppd: num_written = os.write(pppd_fd, data_to_pppd)
\*                  data_to_pppd = data_to_pppd[num_written:]
SizeWritePppd ==
    /\ spc = "writepppd"
    /\ \/ \E num_written \in WriteSizes(len_to_pppd) :
             len_to_pppd' = len_to_pppd - num_written
       \/ \* nothing to write, or EAGAIN / EINTR
          UNCHANGED len_to_pppd
    /\ spc' = "writessl"
    /\ UNCHANGED <<otherThanSize, len_to_ssl, len_to_ssl_buf2>>

\* if not data_to_ssl_buf2 and data_to_ssl:
\*     data_to_ssl_buf2 = data_to_ssl; data_to_ssl = ''
\* if data_to_ssl_buf2: ssl_socket.write(data_to_ssl_buf2), which writes all
\* of it or raises.
SizeWriteSsl ==
    /\ spc = "writessl"
    /\ LET promote == len_to_ssl_buf2 = 0 /\ len_to_ssl # 0
           buf2 == IF promote THEN len_to_ssl ELSE len_to_ssl_buf2
       IN
       /\ len_to_ssl' = (IF promote THEN 0 ELSE len_to_ssl)
       /\ \/ \* written, or nothing to write
             len_to_ssl_buf2' = 0
          \/ \* SSL_ERROR_WANT_READ / SSL_ERROR_WANT_WRITE
             /\ buf2 # 0
             /\ len_to_ssl_buf2' = buf2
    /\ spc' = "readpppd"
    /\ UNCHANGED <<otherThanSize, len_to_pppd>>

NextSize ==
    \/ SizeReadPppd
    \/ SizeReadSsl
    \/ SizeWritePppd
    \/ SizeWriteSsl

\* =========================================================== specifications

InitLoop ==
    LoopInit /\ WatchIdle /\ ExecIdle /\ MainIdle /\ RouteIdle /\ DnsIdle /\ IfaceIdle /\ MenuIdle /\ SizeIdle

SpecLoop == InitLoop /\ [][NextLoop]_vars

InitWatch ==
    LoopIdle /\ WatchInit /\ ExecIdle /\ MainIdle /\ RouteIdle /\ DnsIdle /\ IfaceIdle /\ MenuIdle /\ SizeIdle

SpecWatch == InitWatch /\ [][NextWatch]_vars

InitExec ==
    LoopIdle /\ WatchIdle /\ ExecInit /\ MainIdle /\ RouteIdle /\ DnsIdle /\ IfaceIdle /\ MenuIdle /\ SizeIdle

SpecExec == InitExec /\ [][NextExec]_vars

InitMain ==
    LoopIdle /\ WatchIdle /\ ExecIdle /\ MainInit /\ RouteIdle /\ DnsIdle /\ IfaceIdle /\ MenuIdle /\ SizeIdle

SpecMain == InitMain /\ [][NextMain]_vars

InitParse ==
    LoopIdle /\ WatchIdle /\ ExecIdle /\ MainIdle /\ ParseInit /\ DnsIdle /\ IfaceIdle /\ MenuIdle /\ SizeIdle

SpecParse == InitParse /\ [][NextParse]_vars

InitRevdns ==
    LoopIdle /\ WatchIdle /\ ExecIdle /\ MainIdle /\ RevdnsInit /\ DnsIdle /\ IfaceIdle /\ MenuIdle /\ SizeIdle

SpecRevdns == InitRevdns /\ [][NextRevdns]_vars

InitRoutes ==
    LoopIdle /\ WatchIdle /\ ExecIdle /\ MainIdle /\ RoutesInit /\ DnsIdle /\ IfaceIdle /\ MenuIdle /\ SizeIdle

SpecRoutes == InitRoutes /\ [][NextRoutes]_vars

InitDns ==
    LoopIdle /\ WatchIdle /\ ExecIdle /\ MainIdle /\ RouteIdle /\ DnsInit /\ IfaceIdle /\ MenuIdle /\ SizeIdle

SpecDns == InitDns /\ [][NextDns]_vars

InitIface ==
    LoopIdle /\ WatchIdle /\ ExecIdle /\ MainIdle /\ RouteIdle /\ DnsIdle /\ IfaceInit /\ MenuIdle /\ SizeIdle

SpecIface == InitIface /\ [][NextIface]_vars

InitMenu ==
    LoopIdle /\ WatchIdle /\ ExecIdle /\ MainIdle /\ RouteIdle /\ DnsIdle /\ IfaceIdle /\ MenuInit /\ SizeIdle

SpecMenu == InitMenu /\ [][NextMenu]_vars

InitSize ==
    LoopIdle /\ WatchIdle /\ ExecIdle /\ MainIdle /\ RouteIdle /\ DnsIdle /\ IfaceIdle /\ MenuIdle /\ SizeInit

SpecSize == InitSize /\ [][NextSize]_vars

\* =================================================================== claims

\* C1: while run_event_loop runs, the bytes written to the TLS socket are a
\* prefix of the bytes read from the PTY and the bytes written to the PTY
\* are a prefix of the bytes read from the TLS socket; every byte read and
\* not yet written waits, in order, in data_to_ssl_buf2, data_to_ssl or
\* data_to_pppd (nothing is reordered, duplicated or skipped).
C1_ByteOrder ==
    /\ IsPrefix(ssl_out, Take(PtyStream, pty_in_pos))
    /\ IsPrefix(pty_out, Take(SslStream, ssl_in_pos))
    /\ ssl_out \o data_to_ssl_buf2 \o data_to_ssl = Take(PtyStream, pty_in_pos)
    /\ pty_out \o data_to_pppd = Take(SslStream, ssl_in_pos)

\* A TLS write is blocked on WANT_READ with a second PTY chunk waiting behind
\* it, after an earlier chunk went through, while a partial PTY write has left
\* bytes in data_to_pppd.
C1_Witness ==
    /\ ssl_write_blocked_on_read
    /\ data_to_ssl_buf2 # <<>>
    /\ data_to_ssl # <<>>
    /\ ssl_out # <<>>
    /\ pty_out # <<>>
    /\ data_to_pppd # <<>>

\* C2: while data_to_ssl_buf2 is non-empty a step either leaves it as it is
\* or empties it by a TLS write of exactly its content; data_to_ssl is never
\* promoted over a pending buffer, so a retry presents the same bytes.
C2_StableRetryBuffer ==
    [][data_to_ssl_buf2 # <<>> =>
          \/ data_to_ssl_buf2' = data_to_ssl_buf2
          \/ /\ data_to_ssl_buf2' = <<>>
             /\ ssl_out' = ssl_out \o data_to_ssl_buf2]_vars

\* The write of data_to_ssl_buf2 is about to be retried while newer PTY data
\* waits in data_to_ssl.
C2_Witness ==
    /\ pc = "writessl"
    /\ data_to_ssl_buf2 # <<>>
    /\ data_to_ssl # <<>>
    /\ ~ssl_write_blocked_on_read

\* C7: run_event_loop has ended normally exactly when a read of the log
\* pipe, the PTY or the TLS socket has returned zero bytes: the step that
\* sees EOF leaves the loop, and EAGAIN, EINTR, WANT_READ and WANT_WRITE
\* never do.
C7_ExitIffEof == (pc = "done") <=> (eof_seen # "none")

\* The loop has ended on PTY EOF with a TLS write still pending after
\* WANT_READ.
C7_Witness ==
    /\ pc = "done"
    /\ eof_seen = "pppd_fd"
    /\ data_to_ssl_buf2 # <<>>
    /\ ssl_write_blocked_on_read

\* C8: with the keep-alive socket armed, a select that times out more than
\* KEEPALIVE_TIMEOUT seconds after the last activity is followed by one
\* keep-alive datagram (unless Ctrl-C comes first), and a datagram is sent
\* only when the socket is armed and the idle time exceeds the timeout.
C8_KeepaliveSentWhenDue ==
    [][/\ (pc = "keepalive" /\ KeepaliveDue /\ exc' # "KeyboardInterrupt")
            => keepalives_sent' = keepalives_sent + 1
       /\ keepalives_sent' # keepalives_sent
            => /\ keepalive_socket
               /\ time_since_last_activity > KEEPALIVE_TIMEOUT]_vars

\* C5: ip_up is called at most once, and only in a call of process after
\* which all four patterns have matched the collected log and all four
\* attributes are set; the routes, the keep-alive arming and the DNS
\* installation happen inside that call only.
C5_IpUpOnceAfterAllMatched ==
    /\ Len(ip_up_calls) <= 1
    /\ (ip_up_calls # << >> \/ link_actions # << >>) =>
          /\ watcher_notified
          /\ Len(ip_up_calls) = 1
          /\ iface_name # None /\ tty # None
          /\ remote_ip # None /\ local_ip # None
          /\ get_match("Using interface (.*)$", collected_log) # None
          /\ get_match("Connect: .* <--> (.*)$", collected_log) # None
          /\ get_match("remote IP address (.*)$", collected_log) # None
          /\ get_match("local  IP address (.*)$", collected_log) # None
          /\ link_actions = IpUpActions(TRUE, TRUE, FALSE, FALSE)

\* ip_up has been called and process has been called again afterwards, on a
\* log whose lines come in another order than the usual one.
C5_Witness ==
    /\ Len(ip_up_calls) = 1
    /\ link_actions # << >>
    /\ log_rest = << >>
    /\ collected_log = ShuffledLog
    /\ iface_name = << "p" >>

\* C6: once the whole canonical log has been fed to process, however it was
\* split into chunks, ip_up has been called exactly once, with
\* ('ppp0', '/dev/pts/5', '10.0.0.2', '10.0.0.1').
C6_ChunkingIrrelevant ==
    (collected_log = CanonicalLog /\ log_rest = << >>) =>
        ip_up_calls = << <<Str_ppp0, Str_tty, Str_local, Str_remote>> >>


\* The calls of the finally block of execPPPd, in the order they were made.
TeardownCalls ==
    SelectSeq(events, LAMBDA e : e \in {"teardown_dns", "shutdown_pppd",
                                        "delete_host_route"})

\* C3: whenever run_event_loop has exited (EOF, KeyboardInterrupt or another
\* exception) after the host route was added, execPPPd has, by the time it
\* ends, torn down DNS (when the gateway gave DNS servers), then shut down
\* PPPD, then deleted the host route, in that order and all of them.
C3_FullTeardownOnEveryExit ==
    (xpc = "end" /\ loop_exit # "none") =>
        TeardownCalls =
            (IF params.DNS0 THEN << "teardown_dns" >> ELSE << >>)
            \o << "shutdown_pppd", "delete_host_route" >>

\* C4: shutdown_pppd reaps PPPD exactly once: when the non-blocking waitpid
\* finds the child already exited, whatever its status, no SIGTERM and no
\* second waitpid follow; otherwise SIGTERM follows and then exactly one
\* blocking waitpid.
C4_PppdReapedExactlyOnce ==
    pppd_seen # "none" =>
        pppd_calls = IF pppd_seen = "zombie"
                     THEN << "waitpid_nohang" >>
                     ELSE << "waitpid_nohang", "kill", "waitpid" >>

\* C9: once main has dropped privileges, the effective uid of the
\* supervisor, seen between its as_root calls, is the real uid it was
\* started with, also after the ip-up callback has run.
C9_EffectiveUidIsOriginalRealUid ==
    xpc # "start" => euid = start_uid

\* C10: main sends the cached session to the gateway only when --sessionid
\* is absent and the host argument is absent or equal to the cached
\* user@host; and when the favorite listing and the parameter fetch with the
\* cached session succeed, there is no password prompt and no login request,
\* and the session written to the cache file and used for the tunnel is the
\* cached one.
C10_CachedSessionReuse ==
    /\ \A i \in 1..Len(requests) :
          requests[i].session = "S0" =>
             /\ opt_session = "None"
             /\ args_host \in {"None", "me@gw"}
    /\ ( /\ Len(requests) >= 2
         /\ requests[1] = Request("menu", "S0", TRUE)
         /\ requests[2] = Request("params", "S0", TRUE) ) =>
          /\ prompts = 0
          /\ \A i \in 1..Len(requests) : requests[i].kind # "login"
          /\ prefs_file.session = "S0"
          /\ mpc = "exec" => (session = "S0" /\ vpn_params = "S0")
          /\ tunnel_session \in {"None", "S0"}

C10_Witness ==
    /\ mpc = "exit"
    /\ args_host = "me@gw"
    /\ requests = << Request("menu", "S0", TRUE),
                     Request("params", "S0", TRUE) >>
    /\ prompts = 0
    /\ prefs_file.time = "now"
    /\ tunnel_session = "S0"


\* The favorite listing with the cached session was answered by a 302 and
\* main went on (a listing that cannot be parsed ends main at once).
StaleCachedSession ==
    /\ Len(requests) >= 1
    /\ requests[1] = Request("menu", "S0", FALSE)
    /\ ~(mpc = "exit" /\ Len(requests) = 1)

\* C11: when the favorite listing made with the cached session is answered
\* by a 302, main is left without session and parameters, so that the next
\* thing it does is prompt and log in; and whatever is written to the cache
\* file and used for the tunnel afterwards is the session the login gave,
\* never the stale one.
C11_StaleSessionFallsThroughToLogin ==
    StaleCachedSession =>
        /\ mpc = "login" /\ Len(requests) = 1 =>
              (session = "None" /\ vpn_params = "None")
        /\ Len(requests) >= 2 =>
              (requests[2].kind = "login" /\ prompts >= 1)
        /\ \A i \in 2..Len(requests) : requests[i].session # "S0"
        /\ writes > 0 => session \in NewSessions
        /\ prefs_file.time = "now" => prefs_file.session \in NewSessions
        /\ tunnel_session \in {"None"} \cup NewSessions

C11_Witness ==
    /\ StaleCachedSession
    /\ mpc = "exit"
    /\ prompts = 1
    /\ prefs_file = [present |-> TRUE, userhost |-> "me@gw",
                     session |-> "S1", time |-> "now"]
    /\ tunnel_session = "S1"


\* The last thing main did was a login whose answer has no MRHSession cookie
\* other than 'deleted' and contains the wrong-password text.
LoginRejected ==
    /\ requests # << >>
    /\ requests[Len(requests)].kind = "login"
    /\ login_result.mismatch
    /\ \A i \in 1..Len(login_result.cookies) :
          login_result.cookies[i] = "deleted"

\* C12: a login answer without a valid MRHSession cookie that contains
\* 'Either Username or Password do not match!' ends the process with code 3,
\* the cache file not written and execPPPd (routes, DNS, PPPD) never started.
C12_WrongPasswordExits3Untouched ==
    LoginRejected =>
        /\ mpc = "exit"
        /\ exit_code = 3
        /\ writes = 0
        /\ tunnel_session = "None"

C12_Witness ==
    /\ LoginRejected
    /\ login_result.challenge
    /\ Len(login_result.cookies) = MaxCookies
    /\ exit_code = 3
    /\ prompts = 2


\* C13: a cache file that cannot be read is not fatal: with get_prefs
\* returning None and a host argument given, main does not end before it has
\* prompted for a password or sent a request.
C13_MissingPrefsNotFatal ==
    (~prefs_file.present /\ args_host # "None" /\ requests = << >>
        /\ prompts = 0) =>
        mpc # "exit"


\* C14: execPPPd makes at most 5 attempts of the initial exchange, and the
\* host route is installed and PPPD spawned only after an attempt has
\* succeeded: with all 5 attempts failed the tunnel is not started.
C14_TunnelOnlyAfterSuccessfulAttempt ==
    /\ attempt <= 5
    /\ (host_route \/ pppd # "none") => connected


\* C15: when a route spec of LAN0 is invalid, whatever its place in the
\* list, setup_route ends with an error and none of the LAN0 routes is left
\* installed.
C15_InvalidSpecLeavesNoRoutes ==
    (rpc = "done" /\ \E k \in 1..Len(lan0_list) : lan0_list[k] = BadSpec) =>
        /\ route_error # "none"
        /\ lan_routes = << >>

\* Bit p (0 the least significant) of a netmask given by its four octets.
MaskBit(mask, p) == (mask[4 - (p \div 8)] \div (2 ^ (p % 8))) % 2

\* The netmask has a zero bit with a one bit somewhere below it.
ZeroAboveOne(mask) ==
    \E hi, lo \in 0..31 :
        hi > lo /\ MaskBit(mask, hi) = 0 /\ MaskBit(mask, lo) = 1

\* The netmask is k one bits followed by zero bits.
LeadingOnes(mask, k) ==
    \A p \in 0..31 : MaskBit(mask, p) = (IF p >= 32 - k THEN 1 ELSE 0)

\* C18: parse_net_bits applied to 'w.x.y.z/A.B.C.D' fails for every netmask
\* that has a zero bit above a one bit, and for the netmask of k leading one
\* bits it returns what it returns for 'w.x.y.z/k': the same net and bits = k.
C18_NetmaskContiguousOrRejected ==
    (rpc = "done" /\ parse_in.form = "mask") =>
        /\ ZeroAboveOne(parse_in.mask) => ~parse_out.ok
        /\ \A k \in 0..32 :
              LeadingOnes(parse_in.mask, k) =>
                 /\ parse_out.ok
                 /\ parse_out.bits = k
                 /\ parse_out =
                       parse_net_bits(RouteSpec(parse_in.net, "bits", k, << >>))
        /\ ZeroAboveOne(parse_in.mask)
              \/ \E k \in 0..32 : LeadingOnes(parse_in.mask, k)

C18_Witness ==
    /\ rpc = "done"
    /\ parse_in.mask = << 255, 240, 0, 0 >>
    /\ parse_out = [ok |-> TRUE, netparts |-> << 10, 0, 0, 0 >>, bits |-> 12]

\* The full octets of the prefix, last one first.
RECURSIVE Reversed(_)
Reversed(s) == IF s = << >> THEN << >> ELSE Append(Reversed(Tail(s)), Head(s))

\* C19: routespec_to_revdns returns one domain when bits is a multiple of 8
\* and otherwise 2^(8 - bits mod 8) domains whose first labels are the
\* consecutive integers from netparts[bits div 8] with its low
\* (8 - bits mod 8) bits cleared; every domain ends in in-addr.arpa and has,
\* after that first label, the full octets of the prefix in reverse order.
C19_RevdnsDomains ==
    rpc = "done" /\ rev_out # << >> =>
        LET rest == rev_bits % 8
            prefix == Reversed(SubSeq(rev_netparts, 1, rev_bits \div 8))
            remaining == 8 - rest
            octet == rev_netparts[Min(4, (rev_bits \div 8) + 1)]
        IN
        /\ \A n \in 1..Len(rev_out) : rev_out[n].suffix = "in-addr.arpa"
        /\ IF rest = 0
           THEN rev_out = << Domain(prefix) >>
           ELSE /\ Len(rev_out) = 2 ^ remaining
                /\ \E start \in 0..255 :
                      /\ start % (2 ^ remaining) = 0
                      /\ start <= octet
                      /\ octet < start + 2 ^ remaining
                      /\ \A n \in 1..Len(rev_out) :
                            rev_out[n].labels = << start + n - 1 >> \o prefix

C19_Witness ==
    /\ rpc = "done"
    /\ rev_netparts = << 172, 10, 0, 0 >>
    /\ rev_bits = 12
    /\ Len(rev_out) = 16
    /\ rev_out[1] = Domain(<< 0, 172 >>)
    /\ rev_out[16] = Domain(<< 15, 172 >>)


\* What teardown found: /etc/resolv.conf, the backup, the recorded mtime.
FoundConf == dns_before[1]

FoundBak == dns_before[2]

FoundTimestamp == dns_before[3]

\* Teardown renamed the backup over /etc/resolv.conf.
RenamedBack ==
    /\ FoundBak.exists
    /\ resolv_conf = FoundBak
    /\ ~resolv_conf_bak.exists

\* C16: on teardown the manual backend renames the backup over
\* /etc/resolv.conf if and only if a configuration was installed (recorded
\* mtime not zero) and the mtime of /etc/resolv.conf is the recorded one; if
\* the file has another mtime, it is left as it is and only the backup is
\* deleted; if nothing was installed, no file is touched.
C16_RestoreOnlyIfUnmodified ==
    dpc = "done" =>
        /\ RenamedBack <=>
              /\ FoundTimestamp # 0
              /\ FoundConf.exists
              /\ FoundConf.mtime = FoundTimestamp
        /\ (FoundTimestamp # 0 /\ FoundConf.exists
               /\ FoundConf.mtime # FoundTimestamp) =>
              /\ resolv_conf = FoundConf
              /\ ~resolv_conf_bak.exists
        /\ FoundTimestamp = 0 =>
              /\ resolv_conf = FoundConf
              /\ resolv_conf_bak = FoundBak

C16_Witness ==
    /\ dpc = "done"
    /\ FoundTimestamp = 3
    /\ FoundConf = File("other", 4)
    /\ FoundBak = File("orig", 1)
    /\ resolv_conf = File("other", 4)
    /\ resolv_conf_bak = NoFile


\* The value of the last MRHSession cookie that is not 'deleted', or "None".
RECURSIVE LastRealCookie(_)
LastRealCookie(cookies) ==
    IF cookies = << >>
    THEN "None"
    ELSE IF cookies[Len(cookies)] # "deleted"
    THEN cookies[Len(cookies)]
    ELSE LastRealCookie(SubSeq(cookies, 1, Len(cookies) - 1))

\* C17: do_login returns as the session the value of the last MRHSession
\* cookie of the login answer that is not 'deleted', also when a 'deleted'
\* cookie follows it, and reports no session only when every MRHSession
\* cookie is 'deleted' or there is none.
C17_SessionIsLastRealCookie ==
    (requests # << >> /\ requests[Len(requests)].kind = "login") =>
        do_login(login_result).session = LastRealCookie(login_result.cookies)

\* C20: at every select call the TLS socket is in the write set when
\* data_to_ssl_buf2 is not empty and ssl_write_blocked_on_read is false, it
\* is in the read set when data_to_ssl_buf2 is not empty and
\* ssl_write_blocked_on_read is true, and the PTY is in the read set only
\* when data_to_ssl and data_to_ssl_buf2 are both empty.
C20_SelectSetsFollowRetryBuffer ==
    pc = "select" =>
        /\ (data_to_ssl_buf2 # << >> /\ ~ssl_write_blocked_on_read) =>
              "ssl_socket" \in SelectWrites
        /\ (data_to_ssl_buf2 # << >> /\ ssl_write_blocked_on_read) =>
              "ssl_socket" \in SelectReads
        /\ "pppd_fd" \in SelectReads =>
              (data_to_ssl = << >> /\ data_to_ssl_buf2 = << >>)

\* The observations so far end with 'up' or with two 'unknown' in a row.
ReturnDue(obs) ==
    /\ obs # << >>
    /\ \/ obs[Len(obs)] = "up"
       \/ /\ Len(obs) >= 2
          /\ obs[Len(obs)] = "unknown"
          /\ obs[Len(obs) - 1] = "unknown"

\* C21: wait_for_interface stops polling exactly at the first observation
\* that is 'up' or the second of two consecutive 'unknown' observations; one
\* 'unknown' after 'down', after a missing file or as the first observation
\* does not end it.
C21_ReturnsAtUpOrSecondUnknown ==
    iface_up <=> ReturnDue(observed)

\* The cached session listed the favorites but got no tunnel parameters.
StaleAtParams ==
    /\ Len(requests) >= 2
    /\ requests[1] = Request("menu", old_session, TRUE)
    /\ requests[2] = Request("params", old_session, FALSE)

\* C22: when the cached session lists the favorites but get_VPN_params
\* returns None for it, main goes on to the password prompt and a new login:
\* the next request is the login, the stale session is not used again, and
\* main does not exit before it has prompted.
C22_StaleAtParamsFallsThroughToLogin ==
    StaleAtParams =>
        /\ \A i \in 3..Len(requests) : requests[i].session # old_session
        /\ Len(requests) >= 3 => requests[3].kind = "login"
        /\ mpc = "exit" => prompts >= 1

\* The last thing main did was a login whose answer has no MRHSession cookie
\* other than 'deleted', contains "Challenge: ..." and does not contain the
\* wrong-password text (which do_login looks for first, see C12).
ChallengeAnswer ==
    /\ requests # << >>
    /\ requests[Len(requests)].kind = "login"
    /\ CookieLoop(login_result.cookies, "None") = "None"
    /\ login_result.challenge
    /\ ~login_result.mismatch

\* C23: after a login answer without a valid session cookie but with a
\* challenge text do_login returns without exiting and main is back at the
\* password prompt with no session; and once main has prompted, it is past
\* the login loop only with a session that is not empty, or because do_login
\* ended the process with code 3 or 1.
C23_ChallengeRetriesUntilSession ==
    /\ ChallengeAnswer =>
          (mpc = "login" /\ session = "None" /\ exit_code = "None")
    /\ (prompts >= 1 /\ mpc # "login") =>
          \/ session \notin {"None", ""}
          \/ (mpc = "exit" /\ session = "None" /\ exit_code \in {1, 3})

\* C24: when run_event_loop exits before ppp_ip_up ever ran (setup_dns was
\* never called) on a Linux platform, the finally block of execPPPd runs to
\* its end and raises nothing of its own: teardown_dns (when the gateway gave
\* DNS servers), shutdown_pppd and the host route delete are all called, and
\* what leaves execPPPd is only what ended the loop.
C24_TeardownBeforeIpUpRaisesNothing ==
    (xpc = "end" /\ loop_exit # "none" /\ ~ip_up_ran
     /\ platform_kind # "Darwin") =>
        /\ "setup_dns" \notin {events[i] : i \in 1..Len(events)}
        /\ raised = (IF loop_exit = "EOF" THEN "none" ELSE loop_exit)
        /\ events[Len(events)] = "delete_host_route"
        /\ params.DNS0 =>
              "teardown_dns" \in {events[i] : i \in 1..Len(events)}

\* What ppp_ip_up did, in order.
IpUpEvents ==
    SelectSeq(events, LAMBDA e : e \in {"setup_route", "set_keepalive_host",
                                        "setup_dns"})

\* A command run by ppp_ip_up failed, or Ctrl-C or another error ended the
\* relay loop.
CutShort == loop_exit \in {"Exception", "KeyboardInterrupt"}

\* C25: once the ip-up callback has run and no failing command or Ctrl-C
\* has cut it short, it has installed the LAN0 routes if and only if LAN0 is
\* not empty and --skip-routes is not set, armed the keep-alive socket in
\* every case, and installed DNS if and only if DNS0 is not empty and
\* --skip-dns is not set, in this order: routes, keep-alive, DNS.
C25_IpUpRoutesKeepaliveDns ==
    (ip_up_ran /\ xpc # "ipup_wait" /\ ~CutShort) =>
        IpUpEvents =
            (IF RoutesWanted THEN << "setup_route" >> ELSE << >>)
            \o << "set_keepalive_host" >>
            \o (IF DnsWanted THEN << "setup_dns" >> ELSE << >>)

\* C26: write_prefs is called at most once in a run, only with the tunnel
\* parameters at hand and before the tunnel is started; and after a write
\* that succeeded the cache file is one line of four NUL-separated fields
\* which main's parser (readline, split on NUL) takes apart into the same
\* user@host, session and time stamp that main wrote.
C26_CacheWrittenOnceAndReadBack ==
    /\ writes <= 1
    /\ writes = 1 => (vpn_params # "None" /\ mpc \in {"exec", "exit"})
    /\ tunnel_session # "None" => writes = 1
    /\ prefs_file.time = "now" =>
          /\ writes = 1
          /\ readline(prefs_line) = prefs_line
          /\ get_prefs(prefs_line) =
                [ok |-> TRUE, path |-> << >>,
                 userhost |-> FieldChars(userhost),
                 old_session |-> FieldChars(session),
                 old_time |-> FieldChars("now")]

C26_Witness ==
    /\ mpc = "exit"
    /\ writes = 1
    /\ prefs_file = [present |-> TRUE, userhost |-> "you@gw2",
                     session |-> "S1", time |-> "now"]
    /\ prefs_line = << NUL, "y", "o", "u", "@", "g", "w", "2", NUL, "S", "1",
                       NUL, "1", "8" >>
    /\ tunnel_session = "S1"

\* C27: when the last get_VPN_params gives no parameters main exits with
\* code 2 with the cache file not written and execPPPd (host route, PPPD)
\* never started; and a tunnel whose relay loop ended by EOF or by
\* KeyboardInterrupt ends the process with exit code 0.
C27_ExitCodes ==
    /\ (mpc = "exit" /\ requests # << >>
        /\ requests[Len(requests)] = Request("params", session, FALSE)) =>
          /\ exit_code = 2
          /\ writes = 0
          /\ tunnel_session = "None"
    /\ (mpc = "exit" /\ exit_code = 2) =>
          (writes = 0 /\ tunnel_session = "None")
    /\ (mpc = "exit" /\ tunnel_end \in {"EOF", "KeyboardInterrupt"}) =>
          exit_code = 0

\* C28: the favorite get_vpn_menu_number selects has an index in 0..n-1 for
\* a list of n favorites; with one favorite it is index 0 and nothing is
\* read; with two or more every number read before the last one was out of
\* range (and was followed by another prompt), and the selected index is the
\* first number read that is in range.
C28_FavoriteIndexInRange ==
    /\ \A i \in 1..(Len(inputs) - 1) : inputs[i] \notin 0..(nfavs - 1)
    /\ fpc = "done" =>
          /\ selected_fav \in 0..(nfavs - 1)
          /\ nfavs = 1 => (selected_fav = 0 /\ inputs = << >>)
          /\ nfavs >= 2 =>
                (inputs # << >> /\ selected_fav = inputs[Len(inputs)])
    /\ (inputs # << >> /\ inputs[Len(inputs)] \notin 0..(nfavs - 1)) =>
          fpc # "done"

C28_Witness ==
    /\ fpc = "done"
    /\ nfavs = 3
    /\ inputs = << 3, -1, 2 >>
    /\ selected_fav = 2

C30_PendingWriteWakesSelect ==
    (pc = "select" /\ data_to_ssl_buf2 # << >>
     /\ ~ssl_write_blocked_on_read /\ ~keepalive_socket) =>
        SelectReturns({}, {"ssl_socket"})

\* C31: in every state of run_event_loop each of data_to_pppd, data_to_ssl
\* and data_to_ssl_buf2 holds at most BUF_SIZE bytes, so that at most
\* 2 * BUF_SIZE bytes are on their way to the TLS socket and at most BUF_SIZE
\* to the PTY.
C31_BuffersBounded ==
    /\ len_to_pppd <= BUF_SIZE
    /\ len_to_ssl <= BUF_SIZE
    /\ len_to_ssl_buf2 <= BUF_SIZE
    /\ len_to_ssl + len_to_ssl_buf2 <= 2 * BUF_SIZE

C31_Witness ==
    /\ len_to_pppd = BUF_SIZE
    /\ len_to_ssl = BUF_SIZE
    /\ len_to_ssl_buf2 = BUF_SIZE

\* How often the supervisor and the process forked in ppp_ip_up together
\* did `what`.
TimesDone(what) ==
    Len(SelectSeq(events \o helper_events, LAMBDA e : e = what))

\* C32: the process forked inside the ip-up callback is a transient helper:
\* for one tunnel session the keep-alive arming and setup_dns are each done
\* at most once, and not by the forked process; the forked process never
\* returns into run_event_loop (so it never relays on the shared TLS socket
\* and PTY) and never runs the teardown of execPPPd.
C32_ForkedHelperIsTransient ==
    /\ TimesDone("set_keepalive_host") <= 1
    /\ TimesDone("setup_dns") <= 1
    /\ \A i \in 1..Len(helper_events) :
          helper_events[i] \notin {"set_keepalive_host", "setup_dns",
                                   "run_event_loop", "teardown_dns",
                                   "shutdown_pppd"}

\* C33: for a list without any favorite get_vpn_menu_number does not go on
\* prompting: once a number has been read, the test of the while loop lets
\* the function end, and the prompt is not shown a second time.
C33_EmptyListTerminates ==
    nfavs = 0 =>
        /\ Len(inputs) <= 1
        /\ (fpc = "prompt" /\ inputs # << >>) =>
              ~OutOfRange(selected_fav, nfavs)

============================================================================
